---------------------------- MODULE Spec2Model ----------------------------
(***************************************************************************)
(* Offline catalog resolution and load/validate orchestration of the      *)
(* XBRL validator (backend/app/services/arelle_service.py,                *)
(* backend/app/services/validation_worker.py and the callers in           *)
(* backend/app/api/routes_validation.py).                                 *)
(*                                                                         *)
(* Strings are sequences of tokens.  The head token of a URL is its        *)
(* authority ("scheme://host"); every other token is either the path       *)
(* separator "/" or one path segment.  The URLs given to the resolver     *)
(* carry their scheme in lower case (the host may be in upper case); the   *)
(* URLs the engine opens may be spelled in upper case throughout.          *)
(***************************************************************************)
EXTENDS Integers, Sequences, FiniteSets, TLC

(***************************************************************************)
(* Bounds of the model.                                                    *)
(***************************************************************************)
NumThreads == 2
MaxOpens == 2
MaxPackagePaths == 2

\* the rewritten copies kept on disk before load_instance is no longer called
MaxTempFiles == 1

\* the longest path, in tokens, of a string given to the normalizer
MaxPathLen == 6

(***************************************************************************)
(* Strings                                                                 *)
(***************************************************************************)
Slash == "/"

AuthTokens == {"http://x", "http://X", "https://x"}

SchemeOf(tok) == IF tok = "https://x" THEN "https" ELSE "http"

NetlocOf(tok) == IF tok = "http://X" THEN "X" ELSE "x"

\* str.lower() on a scheme or a host
LowerCase(s) == IF s = "X" THEN "x" ELSE s

\* the authority token that spells scheme://netloc
AuthOf(scheme, netloc) ==
    CHOOSE tok \in AuthTokens : SchemeOf(tok) = scheme /\ NetlocOf(tok) = netloc

Range(f) == {f[i] : i \in DOMAIN f}

StartsWith(s, p) == Len(p) <= Len(s) /\ SubSeq(s, 1, Len(p)) = p

EndsWithSlash(s) == s # <<>> /\ s[Len(s)] = Slash

\* s[n:]
DropFirst(s, n) == SubSeq(s, n + 1, Len(s))

\* re.sub(r'/+', '/', s)
RECURSIVE CollapseSlashes(_)
CollapseSlashes(s) ==
    IF Len(s) <= 1 THEN s
    ELSE IF s[1] = Slash /\ s[2] = Slash THEN CollapseSlashes(Tail(s))
         ELSE <<s[1]>> \o CollapseSlashes(Tail(s))

\* s.lstrip('/')
RECURSIVE LStripSlashes(_)
LStripSlashes(s) ==
    IF s # <<>> /\ s[1] = Slash THEN LStripSlashes(Tail(s)) ELSE s

\* s.rstrip('/')
RECURSIVE RStripSlashes(_)
RStripSlashes(s) ==
    IF EndsWithSlash(s) THEN RStripSlashes(SubSeq(s, 1, Len(s) - 1)) ELSE s

\* the head token of a string that names a scheme and no host: "http:"
SchemeOnly == "http:"

\* what follows a leading "//": the netloc up to the next separator, then
\* the path
after_slashes(scheme, rest) ==
    IF rest # <<>> /\ rest[1] # Slash
    THEN [scheme |-> scheme, netloc |-> rest[1], path |-> Tail(rest)]
    ELSE [scheme |-> scheme, netloc |-> "", path |-> rest]

\* a string with no host token at its head: "//" opens the netloc
parse_hostless(scheme, s) ==
    IF Len(s) >= 2 /\ s[1] = Slash /\ s[2] = Slash
    THEN after_slashes(scheme, SubSeq(s, 3, Len(s)))
    ELSE [scheme |-> scheme, netloc |-> "", path |-> s]

\* urllib.parse.urlparse: scheme, netloc and path of a string
urlparse(s) ==
    IF s # <<>> /\ s[1] \in AuthTokens
    THEN [scheme |-> SchemeOf(s[1]), netloc |-> NetlocOf(s[1]), path |-> Tail(s)]
    ELSE IF s # <<>> /\ s[1] = SchemeOnly THEN parse_hostless("http", Tail(s))
    ELSE parse_hostless("", s)

\* urllib.parse.urlunparse((scheme, netloc, path, '', '', ''))
urlunparse(scheme, netloc, path) ==
    <<AuthOf(scheme, netloc)>> \o
        (IF path # <<>> /\ path[1] # Slash THEN <<Slash>> \o path ELSE path)

\* url.startswith(('http://', 'https://')), case-sensitive
StartsWithHttp(url) ==
    url # <<>> /\ url[1] \in AuthTokens /\ SchemeOf(url[1]) \in {"http", "https"}

(***************************************************************************)
(* URL Normalizer and Variant Generator                                    *)
(***************************************************************************)
\* the branch for a string with no scheme or no host: collapse repeated
\* separators; a prefix gets a trailing separator
normalize_plain(path, is_prefix) ==
    IF is_prefix /\ ~EndsWithSlash(CollapseSlashes(path))
    THEN CollapseSlashes(CollapseSlashes(path) \o <<Slash>>)
    ELSE CollapseSlashes(path)

\* the path of a URL: collapsed is original_path with repeated separators
\* collapsed
normalize_path(original_path, collapsed, is_prefix) ==
    IF is_prefix
    THEN IF ~EndsWithSlash(collapsed) THEN collapsed \o <<Slash>> ELSE collapsed
    ELSE IF ~EndsWithSlash(original_path) /\ EndsWithSlash(collapsed)
            /\ collapsed # <<Slash>>
         THEN IF RStripSlashes(collapsed) = <<>> THEN <<Slash>>
              ELSE RStripSlashes(collapsed)
         ELSE collapsed

normalize_parsed(parsed, url, is_prefix) ==
    IF parsed.scheme = "" \/ parsed.netloc = ""
    THEN normalize_plain(IF parsed.path # <<>> THEN parsed.path ELSE url, is_prefix)
    ELSE urlunparse(
             LowerCase(parsed.scheme), LowerCase(parsed.netloc),
             normalize_path(
                 IF parsed.path # <<>> THEN parsed.path ELSE <<Slash>>,
                 CollapseSlashes(IF parsed.path # <<>> THEN parsed.path ELSE <<Slash>>),
                 is_prefix))

normalize_url(url, is_prefix) == normalize_parsed(urlparse(url), url, is_prefix)

\* path.startswith('/eu/fr'): a textual test, so a segment that only begins
\* with "fr" passes it too
FrPrefixed == {"fr", "frx"}

StartsWithEuFr(path) ==
    Len(path) >= 4 /\ path[1] = Slash /\ path[2] = "eu" /\ path[3] = Slash
        /\ path[4] \in FrPrefixed

EuFr == <<Slash, "eu", Slash, "fr">>

\* path.startswith('/eu/fr/')
StartsWithEuFrSlash(path) == StartsWith(path, EuFr \o <<Slash>>)

\* a path made to start with the separator
LeadingSlash(path) ==
    IF path = <<>> \/ path[1] # Slash THEN <<Slash>> \o path ELSE path

\* the variant without /eu/fr
without_path(path) ==
    LeadingSlash(IF StartsWithEuFrSlash(path) THEN DropFirst(path, Len(EuFr))
                 ELSE IF path = EuFr THEN <<Slash>>
                 ELSE path)

\* the variant with /eu/fr
with_path(path) == IF StartsWithEuFr(path) THEN path ELSE EuFr \o path

\* candidate_paths = {path, without_path, with_path}: at most one of the two
\* variants differs from path, so the set's iteration order does not show
other_path(path, without, with) == IF without # path THEN without ELSE with

\* a generator that forgets the other convention
variants_keep(variants, candidate_normalized) == variants

variants_append(variants, candidate_normalized) ==
    IF candidate_normalized \in Range(variants) THEN variants
    ELSE Append(variants, candidate_normalized)

variants_of_path(normalized, parsed, path, is_prefix) ==
    variants_append(
        <<normalized>>,
        normalize_url(
            urlunparse(parsed.scheme, parsed.netloc,
                       other_path(path, without_path(path), with_path(path))),
            is_prefix))

variants_of_parsed(normalized, parsed, is_prefix) ==
    IF parsed.scheme = "" \/ parsed.netloc = ""
    THEN <<normalized>>
    ELSE variants_of_path(
             normalized, parsed,
             LeadingSlash(IF parsed.path # <<>> THEN parsed.path ELSE <<Slash>>),
             is_prefix)

variants_of_normalized(normalized, is_prefix) ==
    variants_of_parsed(normalized, urlparse(normalized), is_prefix)

generate_dual_variants(url, is_prefix) ==
    variants_of_normalized(normalize_url(url, is_prefix), is_prefix)

(***************************************************************************)
(* Local paths are sequences of path segments.  None is the resolver's     *)
(* "unresolved" result.                                                    *)
(***************************************************************************)
None == <<"None">>

\* the segments of a relative or absolute path string
RECURSIVE Segments(_)
Segments(s) ==
    IF s = <<>> THEN <<>>
    ELSE IF s[1] = Slash THEN Segments(Tail(s))
         ELSE <<s[1]>> \o Segments(Tail(s))

\* pathlib: Path(local_prefix) / relative_part
PathJoin(local_prefix, relative_part) == local_prefix \o Segments(relative_part)

(***************************************************************************)
(* State                                                                   *)
(***************************************************************************)
VARIABLES
    cntlr,                  \* self.cntlr is set (initialize() has run)
    packages_loaded,        \* self.packages_loaded
    loaded_package_paths,   \* self._loaded_package_paths
    catalog_map,            \* self._catalog_map: normalized prefix -> local prefix
    config,                 \* self._config: the offline_roots list
    offline_mode,           \* self._offline_mode
    http_fetch_attempts,    \* self._http_fetch_attempts
    lock,                   \* self._lock (threading.RLock): owner and count
    orig_open_calls,        \* URLs handed on to the engine's original opener.open
    opens,                  \* every call of the installed opener.open, in order
    pkg_catalog,            \* the catalog descriptor of each package on disk
    disk,                   \* the regular files that exist
    resolved,               \* the last call of _resolve_dict_url on the current
                            \* catalog map, and its result
    pc,                     \* where each thread is in its request
    model,                  \* the model handle each thread holds
    err,                    \* the exception that last reached each thread
    status,                 \* the status of each thread's last result
    files,                  \* the text of the instance file and of every copy
                            \* written beside it, by path
    loaded,                 \* the last call of load_instance on one file: its
                            \* arguments, what the engine did, what it returned
    validated,              \* the last call of validate_instance: its arguments,
                            \* what the engine did, the results it returned
    urlcall,                \* the last call of _normalize_url or of
                            \* _generate_dual_variants: its arguments, its result
    task,                   \* the last run of run_validation_task: its inputs,
                            \* what the engine was asked to do, the dict returned
    rebuild                 \* the _build_catalog_map in progress: the packages
                            \* its loop has still to visit, and the paths loaded
                            \* before this load_taxonomy_packages

vars == <<cntlr, packages_loaded, loaded_package_paths, catalog_map, config,
          offline_mode, http_fetch_attempts, lock, orig_open_calls, opens,
          pkg_catalog, disk, resolved, pc, model, err, status, files, loaded,
          validated, urlcall, task, rebuild>>

guardVars == <<offline_mode, http_fetch_attempts, orig_open_calls, opens>>

serviceVars == <<cntlr, lock, guardVars>>

catalogVars == <<packages_loaded, loaded_package_paths, catalog_map>>

threadVars == <<pc, model, err, status>>

envVars == <<config, pkg_catalog, disk>>

instanceVars == <<files, loaded, validated, urlcall, task, rebuild>>

(***************************************************************************)
(* File system                                                             *)
(***************************************************************************)
\* Path.is_file()
IsFile(p) == p \in disk

\* Path.exists(): a regular file, or a directory on the way to one
Exists(p) == \E f \in disk : StartsWith(f, p)

(***************************************************************************)
(* Catalog Map Builder                                                     *)
(***************************************************************************)
\* for variant in variants: self._catalog_map[variant] = str(resolved_prefix)
map_variants(map, variants, resolved_prefix) ==
    [k \in (DOMAIN map) \cup variants |->
        IF k \in variants THEN resolved_prefix ELSE map[k]]

\* the mutation _add_catalog_mapping makes to self._catalog_map
add_catalog_mapping(map, original_url, resolved_prefix) ==
    map_variants(map, Range(generate_dual_variants(original_url, TRUE)),
                 resolved_prefix)

\* a rewritePrefix for which (base_path / rewrite_prefix).resolve() raises
Unresolvable == <<"Symlink loop">>

\* the entries of one descriptor, in document order; the exception of an
\* entry that cannot be resolved ends the descriptor, with the entries
\* before it registered
RECURSIVE add_entries(_, _)
add_entries(map, entries) ==
    IF entries = <<>> \/ entries[1].resolvedPrefix = Unresolvable THEN map
    ELSE add_entries(
             add_catalog_mapping(map, entries[1].uriStartString,
                                 entries[1].resolvedPrefix),
             Tail(entries))

EmptyMap == [k \in {} |-> <<>>]

\* one pass of the loop over the loaded packages: a descriptor that does
\* not parse contributes nothing
build_package(map, catalog) ==
    IF catalog.parses THEN add_entries(map, catalog.entries) ELSE map

RECURSIVE build_from(_, _, _)
build_from(map, paths, catalogs) ==
    IF paths = <<>> THEN map
    ELSE build_from(build_package(map, catalogs[paths[1]]), Tail(paths), catalogs)

build_catalog_map(paths, catalogs) == build_from(EmptyMap, paths, catalogs)

(***************************************************************************)
(* Resolver                                                                *)
(***************************************************************************)
\* the keys of the catalog map that the URL starts with
MatchingPrefixes(map, url) == {k \in DOMAIN map : StartsWith(url, k)}

\* the longest of them
BestPrefix(map, url) ==
    CHOOSE best \in MatchingPrefixes(map, url) :
        \A k \in MatchingPrefixes(map, url) : Len(k) <= Len(best)

\* the path _find_catalog_match returns for the best prefix
match_path(url, best_prefix, best_local_prefix) ==
    IF best_prefix # <<>> /\ best_local_prefix # <<>>
    THEN PathJoin(best_local_prefix, LStripSlashes(DropFirst(url, Len(best_prefix))))
    ELSE None

match_best(map, url, best_prefix) == match_path(url, best_prefix, map[best_prefix])

find_catalog_match(map, url) ==
    IF MatchingPrefixes(map, url) = {} THEN None
    ELSE match_best(map, url, BestPrefix(map, url))

\* PackageManager.mappedUrl(url): where the engine's own mapper sends the URL
mappedUrl(url) == <<"mapped">> \o url

\* the catalog step: the first variant whose match is an existing regular file
RECURSIVE catalog_step(_, _)
catalog_try(map, candidates, resolved_path) ==
    IF resolved_path # None /\ Exists(resolved_path) /\ IsFile(resolved_path)
    THEN resolved_path
    ELSE catalog_step(map, Tail(candidates))

catalog_step(map, candidates) ==
    IF candidates = <<>> THEN None
    ELSE catalog_try(map, candidates, find_catalog_match(map, candidates[1]))

\* one offline_roots mapping tried on one variant, prefix variant by prefix variant
RECURSIVE root_try(_, _, _)
root_hit(candidate, local_root, prefix_variants, local_path) ==
    IF StartsWith(candidate, prefix_variants[1]) /\ Exists(local_path)
    THEN local_path
    ELSE root_try(candidate, local_root, Tail(prefix_variants))

root_try(candidate, local_root, prefix_variants) ==
    IF prefix_variants = <<>> THEN None
    ELSE root_hit(candidate, local_root, prefix_variants,
                  PathJoin(local_root,
                           LStripSlashes(DropFirst(candidate,
                                                   Len(prefix_variants[1])))))

mapping_try(candidate, mapping) ==
    IF mapping.url_prefix = <<>> \/ mapping.local_root = <<>> THEN None
    ELSE root_try(candidate, mapping.local_root,
                  generate_dual_variants(mapping.url_prefix, TRUE))

RECURSIVE roots_try(_, _)
roots_next(candidate, mappings, hit) ==
    IF hit # None THEN hit ELSE roots_try(candidate, Tail(mappings))

roots_try(candidate, mappings) ==
    IF mappings = <<>> THEN None
    ELSE roots_next(candidate, mappings, mapping_try(candidate, mappings[1]))

\* the offline_roots step: variants outermost, then mappings, then prefix variants
RECURSIVE offline_roots_step(_, _)
offline_roots_next(candidates, mappings, hit) ==
    IF hit # None THEN hit ELSE offline_roots_step(Tail(candidates), mappings)

offline_roots_step(candidates, mappings) ==
    IF candidates = <<>> THEN None
    ELSE offline_roots_next(candidates, mappings, roots_try(candidates[1], mappings))

\* the steps after the engine's mapper, for an http(s) URL
resolve_variants(normalized_variants, from_catalog) ==
    IF from_catalog # None THEN from_catalog
    ELSE offline_roots_step(normalized_variants, config.offline_roots)

resolve_http(normalized_variants) ==
    resolve_variants(normalized_variants,
                     catalog_step(catalog_map, normalized_variants))

\* a resolver that asks the catalog map and the static roots before the
\* engine's mapper
resolve_catalog_first(url, mapper) ==
    IF StartsWithHttp(url) /\ resolve_http(generate_dual_variants(url, FALSE)) # None
    THEN resolve_http(generate_dual_variants(url, FALSE))
    ELSE IF mapper = "mapped" THEN mappedUrl(url)
    ELSE IF StartsWithHttp(url) THEN None
    ELSE IF Exists(Segments(url)) THEN url ELSE None

\* mapper is what the engine's package mapper does with the URL: "mapped",
\* "unmapped", or "raises" (the lookup fails and is passed over)
resolve_dict_url(url, mapper) ==
    IF mapper = "mapped" THEN mappedUrl(url)
    ELSE IF StartsWithHttp(url) THEN resolve_http(generate_dual_variants(url, FALSE))
    ELSE IF Exists(Segments(url)) THEN url ELSE None

(***************************************************************************)
(* Environment: the packages on disk, the files, the configuration, the    *)
(* URLs callers ask for                                                    *)
(***************************************************************************)
Threads == 1..NumThreads

Packages == {"pkgA", "pkgB"}

\* (base_path / rewrite_prefix).resolve(): the directory a package's entry
\* rewrites to
ResolvedPrefix(pkg) == <<pkg>>

Descriptor(pkg, uri_start) ==
    [parses |-> TRUE,
     entries |-> <<[uriStartString |-> uri_start,
                    resolvedPrefix |-> ResolvedPrefix(pkg)]>>]

Malformed == [parses |-> FALSE, entries |-> <<>>]

UriCrr == <<"http://x", Slash, "crr", Slash>>
UriEuFrCrr == <<"http://x", Slash, "eu", Slash, "fr", Slash, "crr", Slash>>
UriCrrDict == <<"http://x", Slash, "crr", Slash, "dict", Slash>>
UriHost == <<"http://x", Slash>>
UriEuFr == <<"http://x", Slash, "eu", Slash, "fr", Slash>>
UriCrrRaw == <<"http://X", Slash, Slash, "crr">>

DescriptorsOf(pkg) ==
    IF pkg = "pkgA"
    THEN {Descriptor(pkg, u) : u \in {UriCrrRaw, UriEuFrCrr, UriHost}}
    ELSE {Descriptor(pkg, u) : u \in {UriCrr, UriCrrDict, UriEuFr}} \cup {Malformed}

FileA == <<"pkgA", "a.xsd">>
FileB == <<"pkgB", "a.xsd">>
FileADict == <<"pkgA", "dict", "a.xsd">>
FileRoot == <<"root", "crr", "a.xsd">>

\* the file of each package the catalog step can be sent to, and at most one
\* file elsewhere
DiskChoices ==
    {both \cup other : both \in SUBSET {FileA, FileB},
                       other \in {{}, {FileADict}, {FileRoot}}}

OneRoot == [offline_roots |-> <<[url_prefix |-> UriHost, local_root |-> <<"root">>]>>]

UrlCrr == <<"http://x", Slash, "crr", Slash, "a.xsd">>
UrlEuFrCrr == <<"http://x", Slash, "eu", Slash, "fr", Slash, "crr", Slash, "a.xsd">>
UrlCrrDict == <<"http://x", Slash, "crr", Slash, "dict", Slash, "a.xsd">>
UrlEuFr == <<"http://x", Slash, "eu", Slash, "fr", Slash, "a.xsd">>
UrlHost == <<"http://x", Slash, "a.xsd">>
UrlCrrRaw == <<"http://X", Slash, "crr", Slash, Slash, "a.xsd">>
UrlLocal == <<"pkgA", Slash, "a.xsd">>

Urls == {UrlCrr, UrlEuFrCrr, UrlCrrDict, UrlEuFr, UrlHost, UrlCrrRaw, UrlLocal}

MapperOutcomes == {"mapped", "unmapped", "raises"}

\* what the engine's load ends with: a model, no model, or an exception
LoadOutcomes == {"model", "none", "raises"}

\* the package_paths lists a caller may pass
PackagePathLists ==
    {<<p>> : p \in Packages} \cup {<<p, q>> : p \in Packages, q \in Packages}

Unlocked == [owner |-> 0, count |-> 0]

\* an exception: its kind and, for an offline violation, what its message
\* interpolates
NoError == [kind |-> "none", count |-> 0, urls |-> {}]

NoCall == [url |-> <<>>, mapper |-> "none", result |-> None]

\* no instance file has been stored yet
NoFiles == [path \in {} |-> <<>>]

\* no _injection_metadata attribute on the model
NoInjection ==
    [injection_used |-> FALSE, injected_urls |-> <<>>, temp_fallback_used |-> FALSE,
     temp_file_path |-> <<>>, attached |-> FALSE]

\* a concept table without concepts
EmptyTable == [qname \in {} |-> ""]

\* preloaded_dts is None
NoPreload ==
    [concepts |-> EmptyTable, schemas_loaded |-> 0, provenance |-> <<>>, none |-> TRUE]

\* validate_instance has not been called
NoValidation ==
    [model_xbrl |-> "none", profile |-> "", validation |-> "none", outcome |-> "none",
     status |-> "none", offline_attempt_count |-> 0]

\* neither _normalize_url nor _generate_dual_variants has been called
NoUrlCall == [op |-> "none", url |-> <<>>, is_prefix |-> FALSE, variants |-> <<>>]

\* no _build_catalog_map is under way
NoRebuild == [active |-> FALSE, todo |-> <<>>, previous |-> <<>>]

\* run_validation_task has not run
NoTask ==
    [package_paths |-> <<>>, accepted |-> {}, packages_loaded |-> FALSE,
     load |-> "not called", engine_loaded |-> FALSE, engine_validated |-> FALSE,
     status |-> "none", errors |-> <<>>, model |-> "none"]

\* load_instance has not been called
NoLoad ==
    [file_path |-> <<>>, dts_first_schemas |-> <<>>, mapped |-> {},
     schema_loads |-> <<>>, instance_concepts |-> EmptyTable,
     first_file_path |-> <<>>, actual_file_path |-> <<>>, returned |-> "none",
     injection |-> NoInjection, qnameConcepts |-> EmptyTable, preloaded |-> NoPreload,
     undefinedFacts |-> {}]

(***************************************************************************)
(* load_taxonomy_packages                                                  *)
(***************************************************************************)
\* the whole of load_taxonomy_packages on an initialized service whose
\* package archives the engine accepts: the paths are appended,
\* packages_loaded is set, the catalog map is rebuilt from every loaded package
load_taxonomy_packages(package_paths) ==
    /\ loaded_package_paths' = loaded_package_paths \o package_paths
    /\ packages_loaded' = (package_paths # <<>>)
    /\ catalog_map' = build_catalog_map(loaded_package_paths \o package_paths,
                                        pkg_catalog)

(***************************************************************************)
(* The resolver on its own: one initialized service, package loads and     *)
(* resolutions in any order                                                *)
(***************************************************************************)
InitResolve ==
    /\ cntlr = TRUE
    /\ packages_loaded = FALSE
    /\ loaded_package_paths = <<>>
    /\ catalog_map = EmptyMap
    /\ config = OneRoot
    /\ offline_mode = TRUE
    /\ http_fetch_attempts = <<>>
    /\ lock = Unlocked
    /\ orig_open_calls = {}
    /\ opens = <<>>
    /\ pkg_catalog \in {[p \in Packages |-> IF p = "pkgA" THEN a ELSE b] :
                            a \in DescriptorsOf("pkgA"), b \in DescriptorsOf("pkgB")}
    /\ disk \in DiskChoices
    /\ resolved = NoCall
    /\ pc = [t \in Threads |-> "idle"]
    /\ model = [t \in Threads |-> "none"]
    /\ err = [t \in Threads |-> NoError]
    /\ status = [t \in Threads |-> "none"]
    /\ files = NoFiles
    /\ loaded = NoLoad
    /\ validated = NoValidation
    /\ urlcall = NoUrlCall
    /\ task = NoTask
    /\ rebuild = NoRebuild

LoadPackages ==
    \E package_paths \in PackagePathLists :
        /\ cntlr
        /\ Len(loaded_package_paths) + Len(package_paths) <= MaxPackagePaths
        /\ load_taxonomy_packages(package_paths)
        /\ resolved' = NoCall
        /\ UNCHANGED <<serviceVars, envVars, instanceVars, threadVars>>

Resolve ==
    \E url \in Urls, mapper \in MapperOutcomes :
        /\ resolved' = [url |-> url, mapper |-> mapper,
                        result |-> resolve_dict_url(url, mapper)]
        /\ UNCHANGED <<serviceVars, catalogVars, envVars, instanceVars, threadVars>>

NextResolve == LoadPackages \/ Resolve

SpecResolve == InitResolve /\ [][NextResolve]_vars

(***************************************************************************)
(* The catalog map while it is rebuilt: load_taxonomy_packages takes no    *)
(* lock, and _build_catalog_map empties self._catalog_map and fills it in  *)
(* place, one package after the other                                      *)
(***************************************************************************)
\* a descriptor that parses and whose second entry cannot be resolved
Broken(pkg, uri_start) ==
    [parses |-> TRUE,
     entries |-> <<[uriStartString |-> uri_start, resolvedPrefix |-> ResolvedPrefix(pkg)],
                   [uriStartString |-> UriHost, resolvedPrefix |-> Unresolvable]>>]

\* load_taxonomy_packages up to the first statements of _build_catalog_map:
\* the paths are appended, packages_loaded is set, the map is emptied
RebuildBegin ==
    \E package_paths \in PackagePathLists :
        /\ cntlr
        /\ ~rebuild.active
        /\ Len(loaded_package_paths) + Len(package_paths) <= MaxPackagePaths
        /\ loaded_package_paths' = loaded_package_paths \o package_paths
        /\ packages_loaded' = TRUE
        /\ catalog_map' = EmptyMap
        /\ rebuild' = [active |-> TRUE, todo |-> loaded_package_paths \o package_paths,
                       previous |-> loaded_package_paths]
        /\ resolved' = NoCall
        /\ UNCHANGED <<serviceVars, envVars, files, loaded, validated, urlcall, task,
                       threadVars>>

\* one pass of "for package_path in self._loaded_package_paths"
RebuildPackage ==
    /\ rebuild.active
    /\ rebuild.todo # <<>>
    /\ catalog_map' = build_package(catalog_map, pkg_catalog[rebuild.todo[1]])
    /\ rebuild' = [rebuild EXCEPT !.todo = Tail(rebuild.todo)]
    /\ resolved' = NoCall
    /\ UNCHANGED <<serviceVars, packages_loaded, loaded_package_paths, envVars, files,
                   loaded, validated, urlcall, task, threadVars>>

\* the loop is over: _build_catalog_map and load_taxonomy_packages return
RebuildEnd ==
    /\ rebuild.active
    /\ rebuild.todo = <<>>
    /\ rebuild' = [rebuild EXCEPT !.active = FALSE]
    /\ UNCHANGED <<serviceVars, catalogVars, envVars, resolved, files, loaded,
                   validated, urlcall, task, threadVars>>

InitCatalog ==
    /\ cntlr = TRUE
    /\ packages_loaded = FALSE
    /\ loaded_package_paths = <<>>
    /\ catalog_map = EmptyMap
    /\ config = OneRoot
    /\ offline_mode = TRUE
    /\ http_fetch_attempts = <<>>
    /\ lock = Unlocked
    /\ orig_open_calls = {}
    /\ opens = <<>>
    /\ pkg_catalog \in {[p \in Packages |-> IF p = "pkgA" THEN a ELSE b] :
                            a \in {Descriptor("pkgA", UriCrr), Descriptor("pkgA", UriEuFr)},
                            b \in {Descriptor("pkgB", UriCrrDict), Malformed,
                                   Broken("pkgB", UriCrrDict)}}
    /\ disk = {FileA, FileB}
    /\ resolved = NoCall
    /\ pc = [t \in Threads |-> "idle"]
    /\ model = [t \in Threads |-> "none"]
    /\ err = [t \in Threads |-> NoError]
    /\ status = [t \in Threads |-> "none"]
    /\ files = NoFiles
    /\ loaded = NoLoad
    /\ validated = NoValidation
    /\ urlcall = NoUrlCall
    /\ task = NoTask
    /\ rebuild = NoRebuild

NextCatalog == RebuildBegin \/ RebuildPackage \/ RebuildEnd \/ Resolve

SpecCatalog == InitCatalog /\ [][NextCatalog]_vars

(***************************************************************************)
(* The resolver with two static offline roots, one nested in the other     *)
(***************************************************************************)
FileRootCrr == <<"rootcrr", "a.xsd">>

HostRoot == [url_prefix |-> UriHost, local_root |-> <<"root">>]

CrrRoot == [url_prefix |-> UriCrr, local_root |-> <<"rootcrr">>]

\* the offline_roots lists of the configuration, in either order
RootConfigs ==
    {[offline_roots |-> <<HostRoot, CrrRoot>>], [offline_roots |-> <<CrrRoot, HostRoot>>],
     OneRoot}

InitRoots ==
    /\ cntlr = TRUE
    /\ packages_loaded = FALSE
    /\ loaded_package_paths = <<>>
    /\ catalog_map = EmptyMap
    /\ config \in RootConfigs
    /\ offline_mode = TRUE
    /\ http_fetch_attempts = <<>>
    /\ lock = Unlocked
    /\ orig_open_calls = {}
    /\ opens = <<>>
    /\ pkg_catalog = [p \in Packages |->
                        IF p = "pkgA" THEN Descriptor(p, UriCrrDict) ELSE Malformed]
    /\ disk \in SUBSET {FileRoot, FileRootCrr}
    /\ resolved = NoCall
    /\ pc = [t \in Threads |-> "idle"]
    /\ model = [t \in Threads |-> "none"]
    /\ err = [t \in Threads |-> NoError]
    /\ status = [t \in Threads |-> "none"]
    /\ files = NoFiles
    /\ loaded = NoLoad
    /\ validated = NoValidation
    /\ urlcall = NoUrlCall
    /\ task = NoTask
    /\ rebuild = NoRebuild

SpecRoots == InitRoots /\ [][NextResolve]_vars

(***************************************************************************)
(* Offline Guard                                                           *)
(***************************************************************************)
\* the URLs the engine hands to its transport: an http URL, an https URL
\* spelled in upper case, a file URL
OpenUrls ==
    {<<"http://x", Slash, "a.xsd">>, <<"HTTPS://X", Slash, "a.xsd">>,
     <<"file://x", Slash, "a.xsd">>}

\* url.lower(), on the authority token
lower(url) ==
    IF url # <<>> /\ url[1] = "HTTPS://X" THEN <<"https://x">> \o Tail(url)
    ELSE IF url # <<>> /\ url[1] = "http://X" THEN <<"http://x">> \o Tail(url)
    ELSE url

\* a test that forgets url.lower()
is_blocked_case_sensitive(url) == StartsWithHttp(url)

\* the test _offline_open makes: url.lower().startswith(('http://', 'https://'))
is_blocked(url) == StartsWithHttp(lower(url))

\* the entry _record_http_fetch_attempt writes: f"{url} (context: {context})"
attempt_info(url, context) == [url |-> url, context |-> context]

record_http_fetch_attempt(url, context) ==
    IF offline_mode THEN Append(http_fetch_attempts, attempt_info(url, context))
    ELSE http_fetch_attempts

\* the opener.open that initialize() installs
offline_open(url) ==
    IF is_blocked(url)
    THEN /\ http_fetch_attempts' = record_http_fetch_attempt(url, "opener.open")
         /\ opens' = Append(opens, [url |-> url, raised |-> TRUE])
         /\ UNCHANGED orig_open_calls
    ELSE /\ orig_open_calls' = orig_open_calls \cup {url}
         /\ opens' = Append(opens, [url |-> url, raised |-> FALSE])
         /\ UNCHANGED http_fetch_attempts

\* _check_offline_violations raises
offline_violation == offline_mode /\ http_fetch_attempts # <<>>

\* the RuntimeError it raises: the message interpolates the number of
\* attempts and nothing else of the log
OfflineViolationError ==
    [kind |-> "offline_violation", count |-> Len(http_fetch_attempts), urls |-> {}]

NotInitializedError == [kind |-> "not_initialized", count |-> 0, urls |-> {}]

EngineError == [kind |-> "engine", count |-> 0, urls |-> {}]

(***************************************************************************)
(* The resolver and the transport side by side                             *)
(***************************************************************************)
\* what probe_url_resolution reports: the first variant whose catalog match
\* is an existing file, and the answer of _resolve_dict_url
probe_url_resolution(url, mapper) ==
    [resolution_successful |->
         catalog_step(catalog_map, generate_dual_variants(url, FALSE)) # None,
     resolved_path |-> catalog_step(catalog_map, generate_dual_variants(url, FALSE)),
     direct_resolution |-> resolve_dict_url(url, mapper)]

ProbeCall(url, mapper) ==
    [url |-> url, mapper |-> mapper, result |-> resolve_dict_url(url, mapper),
     probe |-> probe_url_resolution(url, mapper)]

\* a probe that files every URL it cannot resolve as a fetch attempt
ProbeRecording ==
    \E url \in Urls, mapper \in MapperOutcomes :
        /\ resolved' = ProbeCall(url, mapper)
        /\ http_fetch_attempts' =
               IF resolve_dict_url(url, mapper) = None
               THEN Append(http_fetch_attempts, attempt_info(url, "probe"))
               ELSE http_fetch_attempts
        /\ UNCHANGED <<cntlr, lock, offline_mode, orig_open_calls, opens,
                       catalogVars, envVars, instanceVars, threadVars>>

Probe ==
    \E url \in Urls, mapper \in MapperOutcomes :
        /\ resolved' = ProbeCall(url, mapper)
        /\ UNCHANGED <<serviceVars, catalogVars, envVars, instanceVars, threadVars>>

\* the engine hands a URL to the guarded opener
TransportOpen ==
    \E url \in OpenUrls :
        /\ cntlr
        /\ Len(opens) < MaxOpens
        /\ offline_open(url)
        /\ UNCHANGED <<cntlr, offline_mode, lock, catalogVars, envVars, instanceVars, resolved,
                       threadVars>>

InitProbe ==
    /\ cntlr = TRUE
    /\ packages_loaded = FALSE
    /\ loaded_package_paths = <<>>
    /\ catalog_map = EmptyMap
    /\ config = OneRoot
    /\ offline_mode = TRUE
    /\ http_fetch_attempts = <<>>
    /\ lock = Unlocked
    /\ orig_open_calls = {}
    /\ opens = <<>>
    /\ pkg_catalog = [p \in Packages |->
                        IF p = "pkgA" THEN Descriptor(p, UriCrr) ELSE Malformed]
    /\ disk \in {{FileA}, {FileA, FileRoot}}
    /\ resolved = NoCall
    /\ pc = [t \in Threads |-> "idle"]
    /\ model = [t \in Threads |-> "none"]
    /\ err = [t \in Threads |-> NoError]
    /\ status = [t \in Threads |-> "none"]
    /\ files = NoFiles
    /\ loaded = NoLoad
    /\ validated = NoValidation
    /\ urlcall = NoUrlCall
    /\ task = NoTask
    /\ rebuild = NoRebuild

NextProbe == LoadPackages \/ Resolve \/ Probe \/ TransportOpen

SpecProbe == InitProbe /\ [][NextProbe]_vars

(***************************************************************************)
(* Instance text                                                           *)
(***************************************************************************)
\* a file's text is a sequence of pieces; href is the value of xlink:href
\* for a schemaRef element and empty otherwise
Piece(kind, href) == [kind |-> kind, href |-> href]

NL == Piece("\n", <<>>)

CRLF == Piece("\r\n", <<>>)

SP == Piece(" ", <<>>)

\* the opening tag of the root element
RootTag == Piece("<xbrli:xbrl", <<>>)

\* xmlns:eba_met="http://www.eba.europa.eu/xbrl/crr/dict/met"
XmlnsEbaMet == Piece("xmlns:eba_met=", <<>>)

\* an element with the eba_met prefix
EbaMetElement == Piece("<eba_met:", <<>>)

\* <link:schemaRef xlink:type="simple" xlink:href="{href}"/>
SchemaRef(href) == Piece("<link:schemaRef xlink:type=simple xlink:href=", href)

\* the same element with xlink:href written first
SchemaRefHrefFirst(href) == Piece("<link:schemaRef xlink:href=", href)

\* open(path, 'r', encoding='utf-8').read(): universal newlines turn every
\* line ending into "\n"
read_text(bytes) == [i \in 1..Len(bytes) |-> IF bytes[i] = CRLF THEN NL ELSE bytes[i]]

\* content.find(existing_schema_ref_pattern): the position, 0 for -1
RECURSIVE find_from(_, _)
find_from(content, i) ==
    IF i > Len(content) THEN 0
    ELSE IF content[i].kind = SchemaRef(<<>>).kind THEN i
    ELSE find_from(content, i + 1)

schema_ref_pos(content) == find_from(content, 1)

\* content.rfind('\n', 0, schema_ref_pos) + 1
RECURSIVE line_start(_, _)
line_start(content, pos) ==
    IF pos = 1 THEN 1
    ELSE IF content[pos - 1] \in {NL, CRLF} THEN pos
    ELSE line_start(content, pos - 1)

\* the blanks the line starts with, up to the schemaRef
RECURSIVE indentation(_, _, _)
indentation(content, i, pos) ==
    IF i >= pos \/ content[i] # SP THEN <<>>
    ELSE <<SP>> \o indentation(content, i + 1, pos)

\* content[:pos] + text + content[pos:]
insert_at(content, pos, text) ==
    SubSeq(content, 1, pos - 1) \o text \o SubSeq(content, pos, Len(content))

\* f'{indentation}<link:schemaRef xlink:type="simple" xlink:href="{href}"/>\n'
new_schema_ref(content, pos, href) ==
    indentation(content, line_start(content, pos), pos) \o <<SchemaRef(href), NL>>

\* "http://www.eba.europa.eu/eu/fr/xbrl/crr/dict/met/met.xsd" and
\* "http://www.eba.europa.eu/xbrl/crr/dict/met/met.xsd"
MetUrlEuFr == UrlEuFrCrr

MetUrl == UrlCrr

\* 'dict/met/met.xsd' in content
met_schema_referenced(content) ==
    \E i \in 1..Len(content) :
        content[i].href # <<>> /\ content[i].href[Len(content[i].href)] = "a.xsd"

\* has_eba_met_namespace and has_eba_met_elements and not met_schema_referenced
met_schema_missing(content) ==
    /\ \E i \in 1..Len(content) : content[i] = XmlnsEbaMet
    /\ \E i \in 1..Len(content) : content[i] = EbaMetElement
    /\ ~met_schema_referenced(content)

\* config.get(name, False)
Flag(name) == name \in DOMAIN config /\ config[name]

(***************************************************************************)
(* Schema-Reference Injector                                               *)
(***************************************************************************)
\* the schema URLs _detect_missing_dictionary_namespaces_with_injection
\* returns, <<>> for None
detect_missing_dictionary_namespaces_with_injection(content) ==
    IF ~(Flag("enable_dts_first_api") /\ Flag("dts_first_inject_schema_refs")) THEN <<>>
    ELSE IF met_schema_missing(read_text(content)) THEN <<MetUrlEuFr, MetUrl>>
    ELSE <<>>

detect_missing_dictionary_namespaces(content) ==
    IF met_schema_missing(read_text(content)) THEN <<MetUrlEuFr>> ELSE <<>>

\* the schemaRef lines _create_in_memory_injection builds, one per URL, each
\* URL as it is
RECURSIVE injection_content(_, _)
injection_content(indent, schema_urls) ==
    IF schema_urls = <<>> THEN <<>>
    ELSE indent \o <<SchemaRef(schema_urls[1]), NL>>
         \o injection_content(indent, Tail(schema_urls))

in_memory_at(content, schema_urls, pos) ==
    IF pos = 0 THEN <<>>
    ELSE insert_at(content, pos,
                   injection_content(indentation(content, line_start(content, pos), pos),
                                     schema_urls))

\* the modified text, <<>> for None
create_in_memory_injection(original_content, schema_urls) ==
    in_memory_at(original_content, schema_urls, schema_ref_pos(original_content))

\* PackageManager.isMappedUrl(url), given the URLs the engine's mapper knows
mapper_of(url, mapped) == IF url \in mapped THEN "mapped" ELSE "unmapped"

\* local_path and Path(local_path).exists()
path_exists(local_path) == local_path # None /\ Exists(Segments(local_path))

\* the second look at the offline roots: mappings outermost, then variants,
\* then prefix variants, and only regular files
RECURSIVE root_file_try(_, _, _)
root_file_hit(candidate, local_root, prefix_variants, lp) ==
    IF StartsWith(candidate, prefix_variants[1]) /\ Exists(lp) /\ IsFile(lp) THEN lp
    ELSE root_file_try(candidate, local_root, Tail(prefix_variants))

root_file_try(candidate, local_root, prefix_variants) ==
    IF prefix_variants = <<>> THEN None
    ELSE root_file_hit(candidate, local_root, prefix_variants,
                       PathJoin(local_root,
                                LStripSlashes(DropFirst(candidate,
                                                        Len(prefix_variants[1])))))

RECURSIVE mapping_file_try(_, _)
mapping_file_next(url_variants, mapping, hit) ==
    IF hit # None THEN hit ELSE mapping_file_try(Tail(url_variants), mapping)

mapping_file_try(url_variants, mapping) ==
    IF url_variants = <<>> THEN None
    ELSE mapping_file_next(url_variants, mapping,
                           root_file_try(url_variants[1], mapping.local_root,
                                         generate_dual_variants(mapping.url_prefix, TRUE)))

RECURSIVE offline_roots_fallback(_, _)
offline_roots_fallback_next(url_variants, mappings, hit) ==
    IF hit # None THEN hit ELSE offline_roots_fallback(url_variants, Tail(mappings))

offline_roots_fallback(url_variants, mappings) ==
    IF mappings = <<>> THEN None
    ELSE IF mappings[1].url_prefix = <<>> \/ mappings[1].local_root = <<>>
    THEN offline_roots_fallback(url_variants, Tail(mappings))
    ELSE offline_roots_fallback_next(url_variants, mappings,
                                     mapping_file_try(url_variants, mappings[1]))

\* local_path as _create_temp_instance_with_schema_refs has it before it
\* chooses the href
local_path_or_fallback(schema_url, local_path) ==
    IF local_path # None THEN local_path
    ELSE offline_roots_fallback(generate_dual_variants(schema_url, FALSE),
                                config.offline_roots)

local_path_of(schema_url, mapped) ==
    local_path_or_fallback(schema_url,
                           resolve_dict_url(schema_url, mapper_of(schema_url, mapped)))

\* f"file://{lp_abs}"
file_uri(local_path) == <<"file://">> \o Segments(local_path)

href_to_inject(schema_url, is_pm_mapped, local_path) ==
    IF ~is_pm_mapped /\ path_exists(local_path) THEN file_uri(local_path)
    ELSE schema_url

\* one turn of the loop over additional_schema_refs
inject_one(content, schema_url, is_pm_mapped, local_path, pos) ==
    IF (is_pm_mapped \/ path_exists(local_path)) /\ pos # 0
    THEN insert_at(content, pos,
                   new_schema_ref(content, pos,
                                  href_to_inject(schema_url, is_pm_mapped, local_path)))
    ELSE content

RECURSIVE inject_each(_, _, _)
inject_each(content, additional_schema_refs, mapped) ==
    IF additional_schema_refs = <<>> THEN content
    ELSE inject_each(inject_one(content, additional_schema_refs[1],
                                additional_schema_refs[1] \in mapped,
                                local_path_of(additional_schema_refs[1], mapped),
                                schema_ref_pos(content)),
                     Tail(additional_schema_refs), mapped)

\* uuid.uuid4().hex[:8], a name no file written so far has
Uuids == <<"u1", "u2", "u3", "u4", "u5", "u6">>

\* a copy that takes the place of the file it was made from
temp_path_in_place(original_path, uuid) == original_path

\* temp_dir / f"{original_name}_injected_{uuid}.xbrl"
temp_path(original_path, uuid) == <<"temp">> \o Tail(original_path) \o <<uuid>>

\* open(temp_path, 'w', encoding='utf-8').write(content)
write_file(fs, path, content) ==
    [p \in DOMAIN fs \cup {path} |-> IF p = path THEN content ELSE fs[p]]

\* the text _create_temp_instance_with_schema_refs writes to the new file
create_temp_instance_with_schema_refs(fs, original_path, additional_schema_refs, mapped) ==
    inject_each(read_text(fs[original_path]), additional_schema_refs, mapped)

(***************************************************************************)
(* DTS-First Preloader                                                     *)
(***************************************************************************)
\* dict(schema_model.qnameConcepts): the concepts the schema at a URL
\* declares, each with the definition that schema gives it
schema_concepts(schema_url) ==
    IF schema_url = UrlCrr THEN [qname \in {"met:a", "met:b"} |-> "crr"]
    ELSE [qname \in {"met:b", "met:c"} |-> "eu/fr"]

\* dict.update
update(table, other) ==
    [qname \in DOMAIN table \cup DOMAIN other |->
        IF qname \in DOMAIN other THEN other[qname] ELSE table[qname]]

\* what the engine does with one schema: it returns a model, returns none,
\* or raises
SchemaOutcomes == {"model", "none", "raises"}

\* the provenance entry of one schema URL
preload_entry(schema_url, local_path, outcome) ==
    IF ~path_exists(local_path)
    THEN [schema_url |-> schema_url, local_path |-> None, status |-> "unresolved"]
    ELSE IF outcome = "raises"
    THEN [schema_url |-> schema_url, local_path |-> None, status |-> "error"]
    ELSE IF outcome = "none"
    THEN [schema_url |-> schema_url, local_path |-> local_path, status |-> "failed"]
    ELSE [schema_url |-> schema_url, local_path |-> local_path, status |-> "success"]

\* a loop that stops recording at the first schema that does not load
preload_step_strict(acc, entry) ==
    IF entry.status = "success"
    THEN [concepts |-> update(acc.concepts, schema_concepts(entry.schema_url)),
          schemas_loaded |-> acc.schemas_loaded + 1,
          provenance |-> Append(acc.provenance, entry), none |-> FALSE]
    ELSE acc

\* one turn of the loop over schema_urls
preload_step(acc, entry) ==
    IF entry.status = "success"
    THEN [concepts |-> update(acc.concepts, schema_concepts(entry.schema_url)),
          schemas_loaded |-> acc.schemas_loaded + 1,
          provenance |-> Append(acc.provenance, entry), none |-> FALSE]
    ELSE [acc EXCEPT !.provenance = Append(acc.provenance, entry)]

RECURSIVE preload_loop(_, _, _, _)
preload_loop(acc, schema_urls, mapped, schema_loads) ==
    IF schema_urls = <<>> THEN acc
    ELSE preload_loop(preload_step(acc,
                                   preload_entry(schema_urls[1],
                                                 resolve_dict_url(schema_urls[1],
                                                     mapper_of(schema_urls[1], mapped)),
                                                 schema_loads[schema_urls[1]])),
                      Tail(schema_urls), mapped, schema_loads)

preload_dts_schemas(schema_urls, mapped, schema_loads) ==
    preload_loop([NoPreload EXCEPT !.none = FALSE], schema_urls, mapped, schema_loads)

\* a merge that lets the preloaded definition win
merge_overwriting(qnameConcepts, preloaded_concepts) ==
    update(qnameConcepts, preloaded_concepts)

\* for qname, concept in preloaded_concepts.items():
\*     if qname not in model_xbrl.qnameConcepts: model_xbrl.qnameConcepts[qname] = concept
merge_concepts(qnameConcepts, preloaded_concepts) ==
    [qname \in DOMAIN qnameConcepts \cup DOMAIN preloaded_concepts |->
        IF qname \in DOMAIN qnameConcepts THEN qnameConcepts[qname]
        ELSE preloaded_concepts[qname]]

(***************************************************************************)
(* load_instance: preload, injection, engine load, merge                   *)
(***************************************************************************)
temp_files(fs) == {path \in DOMAIN fs : path[1] = "temp"}

fresh_uuid(fs) == Uuids[Cardinality(temp_files(fs)) + 1]

\* "http://www.eba.europa.eu/eu/fr/xbrl/crr/fws/corep/4.0/val/corep_lr-val.xsd"
UrlVal == <<"http://x", Slash, "crr", Slash, "val.xsd">>

FileRootVal == <<"root", "crr", "val.xsd">>

\* module_registry[selected_key] for the module the file name tells, <<>>
\* when it tells none
val_urls_of(file_path) ==
    IF file_path[Len(file_path)] = "corep_lr" THEN <<UrlVal>> ELSE <<>>

\* actual_file_path, injection_used, injected_urls, temp_fallback_used,
\* temp_file_created and the model, with the file system as it is by then
Locals(fs, actual_file_path, injection_used, injected_urls, temp_fallback_used, temp_file_created, model_xbrl) ==
    [fs |-> fs, actual_file_path |-> actual_file_path,
     injection_used |-> injection_used, injected_urls |-> injected_urls,
     temp_fallback_used |-> temp_fallback_used,
     temp_file_created |-> temp_file_created, model_xbrl |-> model_xbrl]

\* lines 1695-1728: the DTS-first injection
dts_first_injection(fs, file_path, schema_urls, injected_content) ==
    IF injected_content # <<>>
    THEN Locals(write_file(fs, temp_path(file_path, fresh_uuid(fs)), injected_content),
                temp_path(file_path, fresh_uuid(fs)), TRUE, schema_urls, TRUE, TRUE,
                "none")
    ELSE Locals(fs, file_path, TRUE, <<>>, FALSE, FALSE, "none")

\* lines 1730-1754: the legacy instance rewrite
legacy_rewrite(fs, file_path, missing_schemas, mapped) ==
    IF missing_schemas # <<>>
    THEN Locals(write_file(fs, temp_path(file_path, fresh_uuid(fs)),
                           create_temp_instance_with_schema_refs(fs, file_path,
                                                                 missing_schemas, mapped)),
                temp_path(file_path, fresh_uuid(fs)), FALSE, missing_schemas, TRUE,
                TRUE, "none")
    ELSE Locals(fs, file_path, FALSE, <<>>, FALSE, FALSE, "none")

\* a load_instance that tries the injection whatever the preload returned
before_load_always(fs, file_path, preloaded, mapped) ==
    IF detect_missing_dictionary_namespaces_with_injection(fs[file_path]) # <<>>
    THEN dts_first_injection(fs, file_path,
             detect_missing_dictionary_namespaces_with_injection(fs[file_path]),
             create_in_memory_injection(read_text(fs[file_path]),
                 detect_missing_dictionary_namespaces_with_injection(fs[file_path])))
    ELSE IF Flag("allow_instance_rewrite")
    THEN legacy_rewrite(fs, file_path, detect_missing_dictionary_namespaces(fs[file_path]),
                        mapped)
    ELSE Locals(fs, file_path, FALSE, <<>>, FALSE, FALSE, "none")

\* lines 1689-1754: what load_instance does before it hands a path to the
\* engine
before_load(fs, file_path, preloaded, mapped) ==
    IF ~preloaded.none THEN Locals(fs, file_path, FALSE, <<>>, FALSE, FALSE, "none")
    ELSE IF detect_missing_dictionary_namespaces_with_injection(fs[file_path]) # <<>>
    THEN dts_first_injection(fs, file_path,
             detect_missing_dictionary_namespaces_with_injection(fs[file_path]),
             create_in_memory_injection(read_text(fs[file_path]),
                 detect_missing_dictionary_namespaces_with_injection(fs[file_path])))
    ELSE IF Flag("allow_instance_rewrite")
    THEN legacy_rewrite(fs, file_path, detect_missing_dictionary_namespaces(fs[file_path]),
                        mapped)
    ELSE Locals(fs, file_path, FALSE, <<>>, FALSE, FALSE, "none")

\* features.get("conditional_val_schema_injection", False) and not skip_val_injection
val_injection_enabled(skip_val_injection) ==
    Flag("conditional_val_schema_injection") /\ ~skip_val_injection

\* lines 1767-1816: the conditional validation-schema injection, after the
\* engine's first load; reload is what the engine does with the new copy
conditional_val_injection(l, file_path, skip_val_injection, has_val_docs, reload, mapped) ==
    IF val_injection_enabled(skip_val_injection)
       /\ val_urls_of(file_path) # <<>> /\ ~has_val_docs
    THEN IF reload = "raises"
         THEN [l EXCEPT !.fs = write_file(l.fs, temp_path(l.actual_file_path, fresh_uuid(l.fs)),
                                   create_temp_instance_with_schema_refs(l.fs,
                                       l.actual_file_path, val_urls_of(file_path), mapped))]
         ELSE Locals(write_file(l.fs, temp_path(l.actual_file_path, fresh_uuid(l.fs)),
                                create_temp_instance_with_schema_refs(l.fs,
                                    l.actual_file_path, val_urls_of(file_path), mapped)),
                     temp_path(l.actual_file_path, fresh_uuid(l.fs)), TRUE,
                     l.injected_urls \o val_urls_of(file_path), l.temp_fallback_used,
                     TRUE, reload)
    ELSE l

\* model_xbrl._injection_metadata
injection_metadata(l) ==
    IF l.model_xbrl = "model" /\ l.temp_file_created
    THEN [injection_used |-> l.injection_used, injected_urls |-> l.injected_urls,
          temp_fallback_used |-> l.temp_fallback_used,
          temp_file_path |-> l.actual_file_path, attached |-> TRUE]
    ELSE NoInjection

\* how the call ends: the engine raised, there is no model, the offline
\* check raises, or the model is returned
load_exit(l) ==
    IF l.model_xbrl = "raises" THEN "raises"
    ELSE IF l.model_xbrl = "none" THEN "none"
    ELSE IF offline_violation THEN "raises"
    ELSE "model"

\* model_xbrl.qnameConcepts when load_instance returns
concepts_after(l, instance_concepts, preloaded) ==
    IF l.model_xbrl # "model" THEN EmptyTable
    ELSE IF ~preloaded.none THEN merge_concepts(instance_concepts, preloaded.concepts)
    ELSE instance_concepts

\* the facts of an instance: the elements it holds in the eba_met namespace
instance_facts(content) ==
    IF EbaMetElement \in Range(content) THEN {"met:a", "met:b"} ELSE {}

\* model_xbrl.undefinedFacts: the engine classifies each fact while it parses
\* the instance, against the concepts of the instance's own DTS; the merge
\* that follows the load leaves the list as it is
undefined_facts(l, content, instance_concepts, preloaded) ==
    IF l.model_xbrl # "model" THEN {}
    ELSE instance_facts(content) \ DOMAIN instance_concepts

\* the first path the engine was handed, then the locals at the end
load_end(file_path, dts_first_schemas, mapped, schema_loads, instance_concepts, preloaded, first_path, l) ==
    /\ files' = l.fs
    /\ loaded' = [file_path |-> file_path, dts_first_schemas |-> dts_first_schemas,
                  mapped |-> mapped,
                  schema_loads |-> schema_loads,
                  instance_concepts |-> instance_concepts,
                  first_file_path |-> first_path,
                  actual_file_path |-> l.actual_file_path,
                  returned |-> load_exit(l),
                  injection |-> injection_metadata(l),
                  qnameConcepts |-> concepts_after(l, instance_concepts, preloaded),
                  preloaded |-> preloaded,
                  undefinedFacts |-> undefined_facts(l, files[file_path],
                                                     instance_concepts, preloaded)]

load_from(file_path, dts_first_schemas, mapped, schema_loads, instance_concepts, preloaded, skip_val_injection, has_val_docs, load, reload, l) ==
    IF load = "raises"
    THEN load_end(file_path, dts_first_schemas, mapped, schema_loads, instance_concepts,
                  preloaded, l.actual_file_path, [l EXCEPT !.model_xbrl = "raises"])
    ELSE load_end(file_path, dts_first_schemas, mapped, schema_loads, instance_concepts,
                  preloaded, l.actual_file_path,
                  conditional_val_injection([l EXCEPT !.model_xbrl = load], file_path,
                                            skip_val_injection, has_val_docs, reload,
                                            mapped))

load_preloaded(file_path, dts_first_schemas, mapped, schema_loads, instance_concepts, preloaded, skip_val_injection, has_val_docs, load, reload) ==
    load_from(file_path, dts_first_schemas, mapped, schema_loads, instance_concepts,
              preloaded, skip_val_injection, has_val_docs, load, reload,
              before_load(files, file_path, preloaded, mapped))

\* the dts_first_schemas lists a caller passes
DtsFirstLists == {<<>>, <<UrlEuFr, UrlCrr, UrlEuFrCrr>>}

\* the URLs the engine's mapper may know
MappedSets == {{}, {MetUrlEuFr}}

\* what the engine does with each schema the preloader hands it
SchemaLoads ==
    {[u \in {UrlCrr, UrlEuFrCrr, UrlEuFr} |-> IF u = UrlCrr THEN a ELSE "model"] :
        a \in SchemaOutcomes}

\* _preload_dts_schemas returns its result, or an exception outside the
\* per-schema try makes it return None
PreloadOutcomes == {"returns", "fails"}

\* the preloader is not called, or fails before it loads any schema
NoSchemaLoads == [u \in {UrlCrr, UrlEuFrCrr, UrlEuFr} |-> "model"]

\* the concepts the instance's own DTS defines
InstanceTables == {EmptyTable, [qname \in {"met:b"} |-> "instance"]}

UploadPaths == {<<"uploads", "corep_lr">>, <<"uploads", "report">>}

LoadInstance ==
    \E file_path \in DOMAIN files \cap UploadPaths, dts_first_schemas \in DtsFirstLists,
       mapped \in MappedSets, load \in LoadOutcomes, skip_val_injection \in BOOLEAN :
    \E preload \in IF dts_first_schemas = <<>> THEN {"not called"} ELSE PreloadOutcomes :
    \E schema_loads \in IF preload = "returns" THEN SchemaLoads ELSE {NoSchemaLoads},
       instance_concepts \in IF load = "model" THEN InstanceTables ELSE {EmptyTable},
       has_val_docs \in IF val_injection_enabled(skip_val_injection) THEN BOOLEAN
                        ELSE {FALSE} :
    \E reload \in IF val_injection_enabled(skip_val_injection) /\ ~has_val_docs
                   THEN LoadOutcomes ELSE {load} :
        /\ cntlr
        /\ Cardinality(temp_files(files)) < MaxTempFiles
        /\ load_preloaded(file_path, dts_first_schemas, mapped, schema_loads,
                          instance_concepts,
                          IF preload = "returns"
                          THEN preload_dts_schemas(dts_first_schemas, mapped, schema_loads)
                          ELSE NoPreload,
                          skip_val_injection, has_val_docs, load, reload)
        /\ UNCHANGED <<serviceVars, catalogVars, envVars, resolved, threadVars,
                       validated, urlcall, task, rebuild>>

Entry == <<"entry.xsd">>

Entry2 == <<"entry2.xsd">>

\* instance texts: the met schema missing, with "\n" and with "\r\n" line
\* ends; the only schemaRef written href first; the met schema referenced
TextMissing ==
    <<RootTag, XmlnsEbaMet, NL, SP, SchemaRef(Entry), NL, SP, SchemaRef(Entry2), NL,
      EbaMetElement, NL>>

TextMissingCrLf ==
    <<RootTag, XmlnsEbaMet, CRLF, SP, SchemaRef(Entry), CRLF, EbaMetElement, CRLF>>

TextHrefFirst ==
    <<RootTag, XmlnsEbaMet, NL, SP, SchemaRefHrefFirst(Entry), NL, EbaMetElement, NL>>

TextReferenced ==
    <<RootTag, XmlnsEbaMet, NL, SP, SchemaRef(MetUrl), NL, EbaMetElement, NL>>

Texts == {TextMissing, TextMissingCrLf, TextHrefFirst, TextReferenced}

\* the configurations: the flags a deployment sets, and the static root
FlagSets ==
    {{}, {"allow_instance_rewrite"},
     {"enable_dts_first_api", "dts_first_inject_schema_refs"},
     {"enable_dts_first_api", "dts_first_inject_schema_refs", "allow_instance_rewrite"},
     {"conditional_val_schema_injection"}}

ConfigWith(flags) ==
    [k \in {"offline_roots"} \cup flags |->
        IF k = "offline_roots" THEN OneRoot.offline_roots ELSE TRUE]

InitInject ==
    /\ cntlr = TRUE
    /\ packages_loaded = FALSE
    /\ loaded_package_paths = <<>>
    /\ catalog_map = EmptyMap
    /\ config \in {ConfigWith(flags) : flags \in FlagSets}
    /\ offline_mode = TRUE
    /\ http_fetch_attempts = <<>>
    /\ lock = Unlocked
    /\ orig_open_calls = {}
    /\ opens = <<>>
    /\ pkg_catalog = [p \in Packages |-> Malformed]
    /\ disk \in {{}, {FileRoot, FileRootVal}}
    /\ resolved = NoCall
    /\ pc = [t \in Threads |-> "idle"]
    /\ model = [t \in Threads |-> "none"]
    /\ err = [t \in Threads |-> NoError]
    /\ status = [t \in Threads |-> "none"]
    /\ \E path \in UploadPaths, text \in Texts : files = [p \in {path} |-> text]
    /\ loaded = NoLoad
    /\ validated = NoValidation
    /\ urlcall = NoUrlCall
    /\ task = NoTask
    /\ rebuild = NoRebuild

NextInject == LoadInstance

SpecInject == InitInject /\ [][NextInject]_vars

(***************************************************************************)
(* The re-entrant lock                                                     *)
(***************************************************************************)
\* an acquire that never waits
can_acquire_unguarded(t) == TRUE

\* self._lock.acquire() returns for thread t
can_acquire(t) == lock.owner = 0 \/ lock.owner = t

acquire(t) == [owner |-> t, count |-> lock.count + 1]

\* finally: if acquired: self._lock.release()
release(t) ==
    IF lock.count > 1 THEN [owner |-> t, count |-> lock.count - 1] ELSE Unlocked

(***************************************************************************)
(* Load/Validate Orchestrator and its callers                              *)
(***************************************************************************)
\* initialize(): the engine is created, the interceptor installed, the
\* attempt log and the package state reset
Initialize ==
    /\ ~cntlr
    /\ cntlr' = TRUE
    /\ http_fetch_attempts' = <<>>
    /\ offline_mode' = TRUE
    /\ packages_loaded' = FALSE
    /\ loaded_package_paths' = <<>>
    /\ catalog_map' = EmptyMap
    /\ UNCHANGED <<lock, orig_open_calls, opens, envVars, instanceVars, resolved, threadVars>>

\* a caller (run_validation_task, preflight_only or validate_filing) enters
\* load_instance: the lock is taken first
LoadAcquire(t) ==
    /\ pc[t] = "idle"
    /\ can_acquire(t)
    /\ lock' = acquire(t)
    /\ pc' = [pc EXCEPT ![t] = "load"]
    /\ UNCHANGED <<cntlr, guardVars, catalogVars, envVars, instanceVars, resolved, model, err,
                   status>>

\* if not self.cntlr: raise RuntimeError("ArelleService not initialized")
LoadNotInitialized(t) ==
    /\ pc[t] = "load"
    /\ ~cntlr
    /\ lock' = release(t)
    /\ pc' = [pc EXCEPT ![t] = "done"]
    /\ err' = [err EXCEPT ![t] = NotInitializedError]
    /\ status' = [status EXCEPT ![t] = "error"]
    /\ UNCHANGED <<cntlr, guardVars, catalogVars, envVars, instanceVars, resolved, model>>

\* the engine, at work inside load_instance or validate_instance, opens a URL
EngineOpen(t) ==
    \E url \in OpenUrls :
        /\ pc[t] \in {"load", "validate"}
        /\ cntlr
        /\ Len(opens) < MaxOpens
        /\ offline_open(url)
        /\ UNCHANGED <<cntlr, offline_mode, lock, catalogVars, envVars, instanceVars, resolved,
                       threadVars>>

\* the exit of load_instance that raises: the lock is released in finally
\* and the caller's request ends in error
load_raises(t, error) ==
    /\ pc' = [pc EXCEPT ![t] = "done"]
    /\ err' = [err EXCEPT ![t] = error]
    /\ status' = [status EXCEPT ![t] = "error"]
    /\ UNCHANGED model

\* the exit of load_instance that returns (model_xbrl, facts_count)
load_returns(t, model_xbrl) ==
    /\ pc' = [pc EXCEPT ![t] = "returned"]
    /\ model' = [model EXCEPT ![t] = model_xbrl]
    /\ UNCHANGED <<err, status>>

\* the rest of load_instance once the engine's load has ended: no model is
\* returned before the offline check; with a model the check comes first
load_instance(t, outcome) ==
    IF outcome = "raises" THEN load_raises(t, EngineError)
    ELSE IF outcome = "none" THEN load_returns(t, "none")
    ELSE IF offline_violation THEN load_raises(t, OfflineViolationError)
    ELSE load_returns(t, "open")

LoadEnd(t) ==
    \E outcome \in LoadOutcomes :
        /\ pc[t] = "load"
        /\ cntlr
        /\ load_instance(t, outcome)
        /\ lock' = release(t)
        /\ UNCHANGED <<cntlr, guardVars, catalogVars, envVars, instanceVars, resolved>>

\* the caller is run_validation_task: it goes on to validate_instance, where
\* the lock is taken first
ValidateAcquire(t) ==
    /\ pc[t] = "returned"
    /\ can_acquire(t)
    /\ lock' = acquire(t)
    /\ pc' = [pc EXCEPT ![t] = "validate"]
    /\ UNCHANGED <<cntlr, guardVars, catalogVars, envVars, instanceVars, resolved, model, err,
                   status>>

\* what the validation collects: no error, errors, or an exception
ValidateOutcomes == {"clean", "errors", "raises"}

\* results["status"] of validate_instance: the attempt log goes into the
\* metrics and does not change the status
validate_status(model_xbrl, outcome) ==
    IF model_xbrl = "none" \/ outcome = "raises" THEN "error"
    ELSE IF outcome = "errors" THEN "failed"
    ELSE "success"

\* validate_instance returns its results and the lock is released in
\* finally; the caller then closes the model it holds, without the lock
ValidateEnd(t) ==
    \E outcome \in ValidateOutcomes :
        /\ pc[t] = "validate"
        /\ status' = [status EXCEPT ![t] = validate_status(model[t], outcome)]
        /\ lock' = release(t)
        /\ pc' = [pc EXCEPT ![t] = IF model[t] = "open" THEN "close" ELSE "done"]
        /\ UNCHANGED <<cntlr, guardVars, catalogVars, envVars, instanceVars, resolved, model,
                       err>>

\* what Validate.validate(model_xbrl) does inside its try: it runs to
\* completion, or it raises and the exception is logged and passed over
EngineValidations == {"completes", "raises"}

Profiles == {"fast", "full"}

\* the whole of validate_instance for one caller: the lock is taken and
\* released, the engine validates, the results are collected; whether the
\* engine's call raised has no part in the status
ValidateInstance ==
    \E model_xbrl \in {"open", "none"}, profile \in Profiles,
       validation \in EngineValidations, outcome \in ValidateOutcomes :
        /\ cntlr
        /\ can_acquire(1)
        /\ validated' = [model_xbrl |-> model_xbrl, profile |-> profile,
                         validation |-> validation, outcome |-> outcome,
                         status |-> validate_status(model_xbrl, outcome),
                         offline_attempt_count |-> Len(http_fetch_attempts)]
        /\ UNCHANGED <<serviceVars, catalogVars, envVars, files, loaded, resolved,
                       threadVars, urlcall, task, rebuild>>

InitValidate ==
    /\ cntlr = TRUE
    /\ packages_loaded = FALSE
    /\ loaded_package_paths = <<>>
    /\ catalog_map = EmptyMap
    /\ config = OneRoot
    /\ offline_mode = TRUE
    /\ http_fetch_attempts = <<>>
    /\ lock = Unlocked
    /\ orig_open_calls = {}
    /\ opens = <<>>
    /\ pkg_catalog = [p \in Packages |-> Malformed]
    /\ disk = {}
    /\ resolved = NoCall
    /\ pc = [t \in Threads |-> "idle"]
    /\ model = [t \in Threads |-> "none"]
    /\ err = [t \in Threads |-> NoError]
    /\ status = [t \in Threads |-> "none"]
    /\ files = NoFiles
    /\ loaded = NoLoad
    /\ validated = NoValidation
    /\ urlcall = NoUrlCall
    /\ task = NoTask
    /\ rebuild = NoRebuild

NextValidate == TransportOpen \/ ValidateInstance

SpecValidate == InitValidate /\ [][NextValidate]_vars

\* the caller is preflight_only: it goes on to _log_dts_evidence(model_xbrl),
\* no lock is taken
EvidenceBegin(t) ==
    /\ pc[t] = "returned"
    /\ pc' = [pc EXCEPT ![t] = "evidence"]
    /\ UNCHANGED <<serviceVars, catalogVars, envVars, instanceVars, resolved, model, err,
                   status>>

\* preflight_only responds; the model stays open
EvidenceEnd(t) ==
    /\ pc[t] = "evidence"
    /\ pc' = [pc EXCEPT ![t] = "done"]
    /\ UNCHANGED <<serviceVars, catalogVars, envVars, instanceVars, resolved, model, err,
                   status>>

\* the caller is validate_filing: it goes on to
\* render_eba_tableset(model_xbrl_render), no lock is taken
RenderBegin(t) ==
    /\ pc[t] = "returned"
    /\ pc' = [pc EXCEPT ![t] = "render"]
    /\ UNCHANGED <<serviceVars, catalogVars, envVars, instanceVars, resolved, model, err,
                   status>>

\* the rendering ends; validate_filing then closes the model it holds
RenderEnd(t) ==
    /\ pc[t] = "render"
    /\ pc' = [pc EXCEPT ![t] = IF model[t] = "open" THEN "close" ELSE "done"]
    /\ UNCHANGED <<serviceVars, catalogVars, envVars, instanceVars, resolved, model, err,
                   status>>

\* finally: if model_xbrl is not None: model_xbrl.close() has run
CloseEnd(t) ==
    /\ pc[t] = "close"
    /\ model' = [model EXCEPT ![t] = "closed"]
    /\ pc' = [pc EXCEPT ![t] = "done"]
    /\ UNCHANGED <<serviceVars, catalogVars, envVars, instanceVars, resolved, err, status>>

\* the request is over; the thread serves the next one
Finish(t) ==
    /\ pc[t] = "done"
    /\ pc' = [pc EXCEPT ![t] = "idle"]
    /\ model' = [model EXCEPT ![t] = "none"]
    /\ err' = [err EXCEPT ![t] = NoError]
    /\ status' = [status EXCEPT ![t] = "none"]
    /\ UNCHANGED <<serviceVars, catalogVars, envVars, instanceVars, resolved>>

\* the package_paths the application is configured with
ConfiguredPackages == <<"pkgA">>

\* a thread calls load_taxonomy_packages on the initialized service: no lock
\* is taken
PackagesBegin(t) ==
    /\ pc[t] = "idle"
    /\ cntlr
    /\ Len(loaded_package_paths) < MaxPackagePaths
    /\ pc' = [pc EXCEPT ![t] = "packages"]
    /\ UNCHANGED <<serviceVars, catalogVars, envVars, instanceVars, resolved, model, err,
                   status>>

PackagesEnd(t) ==
    /\ pc[t] = "packages"
    /\ Len(loaded_package_paths) + Len(ConfiguredPackages) <= MaxPackagePaths
    /\ load_taxonomy_packages(ConfiguredPackages)
    /\ pc' = [pc EXCEPT ![t] = "idle"]
    /\ UNCHANGED <<serviceVars, envVars, instanceVars, resolved, model, err, status>>

(***************************************************************************)
(* The service after construction, used by NumThreads threads              *)
(***************************************************************************)
Init ==
    /\ cntlr = FALSE
    /\ packages_loaded = FALSE
    /\ loaded_package_paths = <<>>
    /\ catalog_map = EmptyMap
    /\ config = OneRoot
    /\ offline_mode = TRUE
    /\ http_fetch_attempts = <<>>
    /\ lock = Unlocked
    /\ orig_open_calls = {}
    /\ opens = <<>>
    /\ pkg_catalog = [p \in Packages |->
                        Descriptor(p, IF p = "pkgA" THEN UriEuFrCrr ELSE UriCrrDict)]
    /\ disk = {FileA}
    /\ resolved = NoCall
    /\ pc = [t \in Threads |-> "idle"]
    /\ model = [t \in Threads |-> "none"]
    /\ err = [t \in Threads |-> NoError]
    /\ status = [t \in Threads |-> "none"]
    /\ files = NoFiles
    /\ loaded = NoLoad
    /\ validated = NoValidation
    /\ urlcall = NoUrlCall
    /\ task = NoTask
    /\ rebuild = NoRebuild

Step(t) ==
    \/ LoadAcquire(t)
    \/ LoadNotInitialized(t)
    \/ EngineOpen(t)
    \/ LoadEnd(t)
    \/ ValidateAcquire(t)
    \/ ValidateEnd(t)
    \/ EvidenceBegin(t)
    \/ EvidenceEnd(t)
    \/ RenderBegin(t)
    \/ RenderEnd(t)
    \/ CloseEnd(t)
    \/ Finish(t)
    \/ PackagesBegin(t)
    \/ PackagesEnd(t)

Next == Initialize \/ \E t \in Threads : Step(t)

Spec == Init /\ [][Next]_vars

(***************************************************************************)
(* The validation worker: one request in a fresh process, on a service of  *)
(* its own                                                                 *)
(***************************************************************************)
\* the paths for which PackageManager.addPackage returns package info, in
\* the order given
registered_packages(package_paths, accepted) ==
    SelectSeq(package_paths, LAMBDA p : p \in accepted)

\* the attempt log after the engine, loading the instance, has opened url
\* through the installed opener (no URL: it opened nothing)
attempts_of(url) ==
    IF url # <<>> /\ is_blocked(url) THEN <<attempt_info(url, "opener.open")>>
    ELSE <<>>

OfflineViolationOf(attempts) ==
    [kind |-> "offline_violation", count |-> Len(attempts), urls |-> {}]

\* ValueError("No ModelXbrl instance provided")
NoModelError == [kind |-> "no_model", count |-> 0, urls |-> {}]

\* an exception raised while the results are collected
ValidationError == [kind |-> "validation", count |-> 0, urls |-> {}]

\* an error the engine logged against the instance
ReportedError == [kind |-> "reported", count |-> 0, urls |-> {}]

\* load_instance on the worker's service: the engine's load raises, returns
\* no model, or returns a model, and then the attempt log is checked
worker_load(outcome, attempts) ==
    IF outcome = "raises" THEN [raised |-> TRUE, error |-> EngineError, model |-> "none"]
    ELSE IF outcome = "none" THEN [raised |-> FALSE, error |-> NoError, model |-> "none"]
    ELSE IF attempts # <<>>
         THEN [raised |-> TRUE, error |-> OfflineViolationOf(attempts), model |-> "none"]
         ELSE [raised |-> FALSE, error |-> NoError, model |-> "open"]

\* a validate_instance that hands whatever it is given to the engine
validate_instance_unchecked(model_xbrl, outcome) ==
    [status |-> IF outcome = "raises" THEN "error"
                ELSE IF outcome = "errors" THEN "failed" ELSE "success",
     errors |-> IF outcome = "raises" THEN <<ValidationError>>
                ELSE IF outcome = "errors" THEN <<ReportedError>> ELSE <<>>,
     engine_validated |-> TRUE]

\* validate_instance: without a model it raises before the engine is called
\* and returns the error dict of its except branch
validate_instance(model_xbrl, outcome) ==
    IF model_xbrl = "none"
    THEN [status |-> "error", errors |-> <<NoModelError>>, engine_validated |-> FALSE]
    ELSE [status |-> validate_status(model_xbrl, outcome),
          errors |-> IF outcome = "raises" THEN <<ValidationError>>
                     ELSE IF outcome = "errors" THEN <<ReportedError>> ELSE <<>>,
          engine_validated |-> TRUE]

\* the try/except/finally of run_validation_task around load_instance and
\* validate_instance: an exception of the load becomes the error dict, the
\* model held is closed in finally
worker_results(loaded_model, results) ==
    IF loaded_model.raised
    THEN [status |-> "error", errors |-> <<loaded_model.error>>,
          engine_validated |-> FALSE, model |-> "none"]
    ELSE [status |-> results.status, errors |-> results.errors,
          engine_validated |-> results.engine_validated,
          model |-> IF loaded_model.model = "open" THEN "closed" ELSE "none"]

worker_task(package_paths, accepted, registered, load, results) ==
    [package_paths |-> package_paths, accepted |-> accepted,
     packages_loaded |-> (registered # <<>>),
     load |-> load, engine_loaded |-> TRUE, engine_validated |-> results.engine_validated,
     status |-> results.status, errors |-> results.errors, model |-> results.model]

\* the whole of run_validation_task: a service is constructed and
\* initialized, the packages are registered when any path is given (a
\* failure there is passed over), the instance is loaded and validated
run_validation_task(package_paths, accepted, registered, engine_open, load, outcome) ==
    /\ cntlr' = TRUE
    /\ offline_mode' = TRUE
    /\ lock' = Unlocked
    /\ loaded_package_paths' = registered
    /\ packages_loaded' = (registered # <<>>)
    /\ catalog_map' = build_catalog_map(registered, pkg_catalog)
    /\ http_fetch_attempts' = attempts_of(engine_open)
    /\ opens' = IF engine_open = <<>> THEN <<>>
                ELSE <<[url |-> engine_open, raised |-> is_blocked(engine_open)]>>
    /\ orig_open_calls' = IF engine_open = <<>> \/ is_blocked(engine_open) THEN {}
                          ELSE {engine_open}
    /\ task' = worker_task(
                   package_paths, accepted, registered, load,
                   worker_results(
                       worker_load(load, attempts_of(engine_open)),
                       validate_instance(worker_load(load, attempts_of(engine_open)).model,
                                         outcome)))

RunValidationTask ==
    \E package_paths \in PackagePathLists \cup {<<>>}, accepted \in SUBSET Packages,
       engine_open \in OpenUrls \cup {<<>>}, load \in LoadOutcomes,
       outcome \in ValidateOutcomes :
        /\ run_validation_task(package_paths, accepted,
                               registered_packages(package_paths, accepted),
                               engine_open, load, outcome)
        /\ UNCHANGED <<envVars, resolved, threadVars, files, loaded, validated, urlcall,
                       rebuild>>

InitWorker ==
    /\ cntlr = FALSE
    /\ packages_loaded = FALSE
    /\ loaded_package_paths = <<>>
    /\ catalog_map = EmptyMap
    /\ config = OneRoot
    /\ offline_mode = TRUE
    /\ http_fetch_attempts = <<>>
    /\ lock = Unlocked
    /\ orig_open_calls = {}
    /\ opens = <<>>
    /\ pkg_catalog = [p \in Packages |->
                        Descriptor(p, IF p = "pkgA" THEN UriEuFrCrr ELSE UriCrrDict)]
    /\ disk = {FileA}
    /\ resolved = NoCall
    /\ pc = [t \in Threads |-> "idle"]
    /\ model = [t \in Threads |-> "none"]
    /\ err = [t \in Threads |-> NoError]
    /\ status = [t \in Threads |-> "none"]
    /\ files = NoFiles
    /\ loaded = NoLoad
    /\ validated = NoValidation
    /\ urlcall = NoUrlCall
    /\ task = NoTask
    /\ rebuild = NoRebuild

NextWorker == RunValidationTask

SpecWorker == InitWorker /\ [][NextWorker]_vars

(***************************************************************************)
(* The normalizer and the variant generator on their own, over every       *)
(* string of the bounded alphabet                                          *)
(***************************************************************************)
PathTokens == {Slash, "a", "eu", "fr"}

\* the sequences of path tokens in which every segment is followed by a
\* separator or ends the string
PathStrings ==
    {path \in UNION {[1..n -> PathTokens] : n \in 0..MaxPathLen} :
        \A i \in 1..(Len(path) - 1) : path[i] = Slash \/ path[i + 1] = Slash}

\* plain paths, URLs with scheme and host, and strings with a scheme and no
\* host ("http:", "http://", "http:///a", "http:a")
InputStrings ==
    PathStrings
    \cup {<<tok>> \o path : tok \in AuthTokens,
                            path \in {q \in PathStrings : q = <<>> \/ q[1] = Slash}}
    \cup {<<SchemeOnly>> \o path :
              path \in {q \in PathStrings :
                           Len(q) >= 3 /\ q[1] = Slash /\ q[2] = Slash => q[3] = Slash}}

\* a call of _normalize_url on the given string
Normalize ==
    \E is_prefix \in BOOLEAN :
        /\ urlcall.op = "none"
        /\ urlcall' = [urlcall EXCEPT !.op = "normalize", !.is_prefix = is_prefix,
                           !.variants = <<normalize_url(urlcall.url, is_prefix)>>]
        /\ UNCHANGED <<serviceVars, catalogVars, envVars, resolved, threadVars, files,
                       loaded, validated, task, rebuild>>

\* a call of _generate_dual_variants on the given string
GenerateVariants ==
    \E is_prefix \in BOOLEAN :
        /\ urlcall.op = "none"
        /\ urlcall' = [urlcall EXCEPT !.op = "variants", !.is_prefix = is_prefix,
                           !.variants = generate_dual_variants(urlcall.url, is_prefix)]
        /\ UNCHANGED <<serviceVars, catalogVars, envVars, resolved, threadVars, files,
                       loaded, validated, task, rebuild>>

InitUrls ==
    /\ cntlr = TRUE
    /\ packages_loaded = FALSE
    /\ loaded_package_paths = <<>>
    /\ catalog_map = EmptyMap
    /\ config = OneRoot
    /\ offline_mode = TRUE
    /\ http_fetch_attempts = <<>>
    /\ lock = Unlocked
    /\ orig_open_calls = {}
    /\ opens = <<>>
    /\ pkg_catalog = [p \in Packages |-> Malformed]
    /\ disk = {}
    /\ resolved = NoCall
    /\ pc = [t \in Threads |-> "idle"]
    /\ model = [t \in Threads |-> "none"]
    /\ err = [t \in Threads |-> NoError]
    /\ status = [t \in Threads |-> "none"]
    /\ files = NoFiles
    /\ loaded = NoLoad
    /\ validated = NoValidation
    /\ urlcall \in {[NoUrlCall EXCEPT !.url = url] : url \in InputStrings}
    /\ task = NoTask
    /\ rebuild = NoRebuild

NextUrls == Normalize \/ GenerateVariants

SpecUrls == InitUrls /\ [][NextUrls]_vars

(***************************************************************************)
(* Properties of the offline guard and of the orchestrator                 *)
(***************************************************************************)
\* a URL whose text starts with http:// or https://, in any letter case
SpelledHttp(url) == url[1] \in {"http://x", "http://X", "https://x", "HTTPS://X"}

\* C1: every call of the installed opener.open with a URL that starts with
\* http:// or https:// in any letter case appends one entry for that URL to
\* the attempt log and raises, and the original open is not invoked for it.
C1_HttpOpenRecordedAndBlocked ==
    [][Len(opens') = Len(opens) + 1 =>
         (SpelledHttp(opens'[Len(opens')].url) =>
             /\ opens'[Len(opens')].raised
             /\ http_fetch_attempts' =
                    Append(http_fetch_attempts,
                           [url |-> opens'[Len(opens')].url, context |-> "opener.open"])
             /\ orig_open_calls' = orig_open_calls
             /\ \A u \in orig_open_calls : ~SpelledHttp(u))]_vars

\* the engine has tried the https URL spelled in upper case: the call raised
\* and the log holds it
C1_Witness ==
    /\ opens # <<>>
    /\ opens[Len(opens)] = [url |-> <<"HTTPS://X", Slash, "a.xsd">>, raised |-> TRUE]
    /\ http_fetch_attempts # <<>>
    /\ http_fetch_attempts[Len(http_fetch_attempts)].url[1] = "HTTPS://X"

\* C2: no load_instance call returns normally, with or without a model,
\* while the attempt log is non-empty.
C2_LoadNeverReturnsWithAttempts ==
    [][\A t \in Threads :
          (pc[t] = "load" /\ pc'[t] = "returned") => http_fetch_attempts' = <<>>]_vars

\* C3: a request never ends with status 'success' while the attempt log is
\* non-empty: an attempt recorded during validate_instance turns the result
\* into a failure.
C3_NoSuccessWithAttempts ==
    [][\A t \in Threads :
          (status[t] # "success" /\ status'[t] = "success")
              => http_fetch_attempts' = <<>>]_vars

\* C4: the offline-violation error that reaches the caller names every URL
\* of the attempt log.
C4_ViolationNamesEveryUrl ==
    [][\A t \in Threads :
          (err[t] # err'[t] /\ err'[t].kind = "offline_violation")
              => \A i \in DOMAIN http_fetch_attempts' :
                     http_fetch_attempts'[i].url \in err'[t].urls]_vars

\* thread t is inside load_instance or validate_instance
InLoadOrValidate(t) == pc[t] \in {"load", "validate"}

\* C5: a thread inside load_instance or validate_instance holds the lock, no
\* two threads are inside at once, and a thread that has left, on any exit
\* path, no longer holds it.
C5_LockHeldForDurationAndReleased ==
    /\ \A t \in Threads : InLoadOrValidate(t) => lock.owner = t /\ lock.count >= 1
    /\ \A t, u \in Threads : t # u => ~(InLoadOrValidate(t) /\ InLoadOrValidate(u))
    /\ \A t \in Threads : ~InLoadOrValidate(t) => lock.owner # t

\* one thread's load_instance has raised the offline violation and another
\* thread is inside load_instance with the lock
C5_Witness ==
    \E t, u \in Threads :
        /\ pc[t] = "done" /\ err[t].kind = "offline_violation"
        /\ pc[u] = "load" /\ lock.owner = u

\* thread t is in an engine interaction made outside load and validate
InUnlockedEngineCall(t) == pc[t] \in {"packages", "evidence", "render", "close"}

\* C6: package registration, DTS-evidence collection, rendering and closing
\* a model never run while another thread is inside load or validate.
C6_EngineInteractionsSerialized ==
    \A t, u \in Threads :
        t # u => ~(InUnlockedEngineCall(t) /\ InLoadOrValidate(u))

(***************************************************************************)
(* Properties of the resolver                                              *)
(***************************************************************************)
\* the catalog entries of the loaded packages whose descriptor parses
RegisteredEntries ==
    UNION {Range(pkg_catalog[p].entries) :
               p \in {q \in Range(loaded_package_paths) : pkg_catalog[q].parses}}

\* the match prefix of an entry, normalized with a trailing separator
MatchPrefix(e) == normalize_url(e.uriStartString, TRUE)

\* _resolve_dict_url has been asked for an http(s) URL the engine's mapper
\* does not claim
UnclaimedCall ==
    resolved # NoCall /\ resolved.mapper # "mapped" /\ StartsWithHttp(resolved.url)

\* the URL of the call, normalized
CalledUrl == normalize_url(resolved.url, FALSE)

\* the local prefix of entry e joined with what follows its match prefix in
\* the URL of the call
PathVia(e) == PathJoin(e.resolvedPrefix, DropFirst(CalledUrl, Len(MatchPrefix(e))))

\* the result is a path under the local prefix of entry e
UnderLocalPrefix(e) ==
    resolved.result # None /\ StartsWith(resolved.result, e.resolvedPrefix)

\* C7: if the engine's mapper claims a URL, resolve returns the mapper's
\* target, whatever the catalog map and the static roots hold for it.
C7_MapperTakesPrecedence ==
    (resolved # NoCall /\ resolved.mapper = "mapped")
        => resolved.result = <<"mapped">> \o resolved.url

\* the mapper claimed a URL that the catalog map also resolves to a file
C7_Witness ==
    /\ resolved.mapper = "mapped"
    /\ resolved.url = UrlCrr
    /\ find_catalog_match(catalog_map, UrlCrr) = FileA
    /\ IsFile(FileA)
    /\ resolved.result = mappedUrl(UrlCrr)

\* C8: when the match prefixes of two registered entries A and B both match
\* the URL and A is a strict prefix of B, the result is never a path under
\* A's local prefix, and it is B's local prefix joined with the rest of the
\* URL when that file exists.
C8_LongestPrefixWins ==
    \A a, b \in RegisteredEntries :
        ( /\ UnclaimedCall
          /\ a.resolvedPrefix # b.resolvedPrefix
          /\ MatchPrefix(a) # MatchPrefix(b)
          /\ StartsWith(MatchPrefix(b), MatchPrefix(a))
          /\ StartsWith(CalledUrl, MatchPrefix(b)) )
        => /\ ~UnderLocalPrefix(a)
           /\ IsFile(PathVia(b)) => resolved.result = PathVia(b)

\* a URL or prefix with the /eu/fr segment after the authority taken out
WithoutLocale(s) ==
    IF Len(s) >= 5 /\ SubSeq(s, 2, 5) = <<Slash, "eu", Slash, "fr">>
       /\ (Len(s) = 5 \/ s[6] = Slash)
    THEN <<s[1]>> \o DropFirst(s, 5)
    ELSE s

\* the URL of the call lies under the match prefix of e in either convention
LiesUnder(e) == StartsWith(WithoutLocale(CalledUrl), WithoutLocale(MatchPrefix(e)))

\* the local prefix of e joined with the remainder of the URL
TargetOf(e) ==
    PathJoin(e.resolvedPrefix,
             DropFirst(WithoutLocale(CalledUrl), Len(WithoutLocale(MatchPrefix(e)))))

\* C9 as stated: for a registered entry and a URL under its prefix in either
\* convention, resolve returns the entry's local prefix joined with the
\* remainder whenever that file exists and the mapper does not claim the URL.
C9_EitherConventionResolves ==
    \A e \in RegisteredEntries :
        (UnclaimedCall /\ LiesUnder(e) /\ IsFile(TargetOf(e)))
            => resolved.result = TargetOf(e)

\* C9, amended: the same, when no other registered entry's prefix matches the
\* URL in either convention.
C9_EitherConventionResolvesAlone ==
    \A e \in RegisteredEntries :
        ( /\ UnclaimedCall /\ LiesUnder(e) /\ IsFile(TargetOf(e))
          /\ \A other \in RegisteredEntries \ {e} : ~LiesUnder(other) )
            => resolved.result = TargetOf(e)

\* the entry is declared with /eu/fr, the URL is written without it, and the
\* file under the entry's local prefix is returned
C9_Witness ==
    /\ loaded_package_paths = <<"pkgA">>
    /\ pkg_catalog["pkgA"] = Descriptor("pkgA", UriEuFrCrr)
    /\ resolved.url = UrlCrr
    /\ resolved.mapper = "unmapped"
    /\ resolved.result = FileA

\* C10: when two registered entries have the same match prefix and different
\* local prefixes, resolve returns the path under the one whose file exists,
\* whatever the registration order; if the file exists under neither, no
\* path under either is returned.
C10_ExistingFileWins ==
    \A a, b \in RegisteredEntries :
        ( /\ UnclaimedCall
          /\ a.resolvedPrefix # b.resolvedPrefix
          /\ MatchPrefix(a) = MatchPrefix(b)
          /\ StartsWith(CalledUrl, MatchPrefix(a)) )
        => /\ (IsFile(PathVia(a)) /\ ~IsFile(PathVia(b)))
                  => resolved.result = PathVia(a)
           /\ (~IsFile(PathVia(a)) /\ ~IsFile(PathVia(b)))
                  => ~UnderLocalPrefix(a) /\ ~UnderLocalPrefix(b)

\* the configured mappings whose url_prefix, in either convention, matches
\* the URL of the call in either convention
MatchingRoots ==
    {m \in Range(config.offline_roots) :
        StartsWith(WithoutLocale(CalledUrl),
                   WithoutLocale(normalize_url(m.url_prefix, TRUE)))}

\* the local path mapping m gives the URL of the call
RootPath(m) ==
    PathJoin(m.local_root,
             DropFirst(WithoutLocale(CalledUrl),
                       Len(WithoutLocale(normalize_url(m.url_prefix, TRUE)))))

\* C11: when the catalog map does not resolve the URL, the configured mapping
\* with the longest matching url_prefix determines the path the static
\* fallback returns: if the path it gives exists, that path is the result.
C11_LongestRootWins ==
    \A m \in MatchingRoots :
        ( /\ UnclaimedCall
          /\ catalog_step(catalog_map, generate_dual_variants(resolved.url, FALSE)) = None
          /\ Exists(RootPath(m))
          /\ \A other \in MatchingRoots :
                 Len(normalize_url(other.url_prefix, TRUE))
                     <= Len(normalize_url(m.url_prefix, TRUE)) )
        => resolved.result = RootPath(m)

\* an intercepted HTTP(S) open: the opener refused one more URL
InterceptedOpen ==
    /\ Len(opens') = Len(opens) + 1
    /\ opens'[Len(opens')].raised
    /\ is_blocked(opens'[Len(opens')].url)

\* C12: the offline-attempt log changes only through an intercepted HTTP(S) open, which appends that URL: a resolver operation (a resolution, a probe, a package load that rebuilds the catalog map) leaves the log as it was, so a run whose opens were all local ends with the log empty.
C12_LogChangesOnlyByInterceptedOpen ==
    [][ /\ (http_fetch_attempts' # http_fetch_attempts =>
               /\ InterceptedOpen
               /\ http_fetch_attempts' =
                      Append(http_fetch_attempts,
                             attempt_info(opens'[Len(opens')].url, "opener.open")))
        /\ ((\A i \in 1..Len(opens') : ~opens'[i].raised) => http_fetch_attempts' = <<>>)
      ]_vars

\* a probe has failed to resolve an http URL, a local open went through, and
\* the log is empty
C12_Witness ==
    /\ "probe" \in DOMAIN resolved
    /\ StartsWithHttp(resolved.url)
    /\ resolved.result = None
    /\ opens # <<>>
    /\ \A i \in 1..Len(opens) : ~opens[i].raised
    /\ http_fetch_attempts = <<>>

\* C13: no call of load_instance writes to a file that exists, the original input file first of all: every path keeps its text, and what an injection changes is in a file with a new path.
C13_OriginalFileUntouched ==
    [][\A path \in DOMAIN files : path \in DOMAIN files' /\ files'[path] = files[path]]_vars

\* a load has handed the engine a rewritten copy whose text differs from the
\* original's
C13_Witness ==
    /\ loaded # NoLoad
    /\ loaded.actual_file_path \in temp_files(files)
    /\ loaded.file_path \in DOMAIN files
    /\ files[loaded.actual_file_path] # files[loaded.file_path]

\* C14: with allow_instance_rewrite off or absent, load_instance builds no rewritten copy, hands the engine the original path and attaches no injection record.
C14_NoRewriteUnlessAllowed ==
    (loaded # NoLoad /\ ~Flag("allow_instance_rewrite")) =>
        /\ temp_files(files) = {}
        /\ loaded.first_file_path = loaded.file_path
        /\ loaded.actual_file_path = loaded.file_path
        /\ ~loaded.injection.attached

\* the hrefs of the schemaRef elements of a text
HrefsOf(content) == {content[i].href : i \in 1..Len(content)} \ {<<>>}

\* the hrefs a copy has and the file load_instance was called on has not
WrittenHrefs(path) == HrefsOf(files[path]) \ HrefsOf(files[loaded.file_path])

\* the URLs an injection path may be given
InjectionUrls == {MetUrlEuFr, MetUrl, UrlVal}

\* C15: every href an injection writes is the original remote URL of a schema the engine's mapper recognizes, or else the local-file URI of the path the resolver finds for it; a URL with neither is not written.
C15_HrefMappedOrLocal ==
    loaded # NoLoad =>
        \A path \in temp_files(files) : \A href \in WrittenHrefs(path) :
            \E url \in InjectionUrls :
                \/ href = url /\ url \in loaded.mapped
                \/ /\ url \notin loaded.mapped
                   /\ path_exists(local_path_of(url, loaded.mapped))
                   /\ href = file_uri(local_path_of(url, loaded.mapped))

\* C16: the injection record lists exactly the URLs for which a schemaRef was inserted: each listed URL is recognized by the mapper or resolves to a local file and its href is in the copy, and each href in the copy belongs to a listed URL.
C16_RecordListsInsertedUrls ==
    loaded.injection.attached =>
        /\ \A i \in 1..Len(loaded.injection.injected_urls) :
               /\ \/ loaded.injection.injected_urls[i] \in loaded.mapped
                  \/ path_exists(local_path_of(loaded.injection.injected_urls[i],
                                               loaded.mapped))
               /\ \E href \in WrittenHrefs(loaded.injection.temp_file_path) :
                      href \in {loaded.injection.injected_urls[i],
                                file_uri(local_path_of(loaded.injection.injected_urls[i],
                                                       loaded.mapped))}
        /\ \A href \in WrittenHrefs(loaded.injection.temp_file_path) :
               \E i \in 1..Len(loaded.injection.injected_urls) :
                   href \in {loaded.injection.injected_urls[i],
                             file_uri(local_path_of(loaded.injection.injected_urls[i],
                                                    loaded.mapped))}

\* the copy is the original with text put in before position pos
InsertedBefore(original, copy, pos) ==
    /\ Len(copy) >= Len(original)
    /\ SubSeq(copy, 1, pos - 1) = SubSeq(original, 1, pos - 1)
    /\ SubSeq(copy, pos + Len(copy) - Len(original), Len(copy))
           = SubSeq(original, pos, Len(original))
    /\ \A i \in pos..(pos + Len(copy) - Len(original) - 1) :
           copy[i] \in {SP, NL} \/ copy[i].kind = SchemaRef(<<>>).kind

\* C17: the copy handed to the engine is the original with new schemaRef lines put in before the first schemaRef the original has: taking them out gives the original back, piece for piece, whatever the number of URLs injected.
C17_CopyIsOriginalPlusRefs ==
    (loaded # NoLoad /\ loaded.actual_file_path \in temp_files(files)) =>
        IF schema_ref_pos(files[loaded.file_path]) = 0
        THEN files[loaded.actual_file_path] = files[loaded.file_path]
        ELSE InsertedBefore(files[loaded.file_path], files[loaded.actual_file_path],
                            schema_ref_pos(files[loaded.file_path]))

\* C18: after the merge every name the instance's own concept table had keeps the definition it had; the names added are those of the preloaded concepts the table lacked.
C18_InstanceConceptsWin ==
    (loaded # NoLoad /\ loaded.returned = "model") =>
        /\ \A qname \in DOMAIN loaded.instance_concepts :
               /\ qname \in DOMAIN loaded.qnameConcepts
               /\ loaded.qnameConcepts[qname] = loaded.instance_concepts[qname]
        /\ DOMAIN loaded.qnameConcepts
               = DOMAIN loaded.instance_concepts \cup DOMAIN loaded.preloaded.concepts
        /\ \A qname \in DOMAIN loaded.qnameConcepts \ DOMAIN loaded.instance_concepts :
               loaded.qnameConcepts[qname] = loaded.preloaded.concepts[qname]

\* a merge in which a preloaded schema declares a name the instance defines,
\* and another name has been added
C18_Witness ==
    /\ loaded # NoLoad
    /\ loaded.returned = "model"
    /\ \E qname \in DOMAIN loaded.instance_concepts \cap DOMAIN loaded.preloaded.concepts :
           loaded.preloaded.concepts[qname] # loaded.instance_concepts[qname]
    /\ DOMAIN loaded.qnameConcepts # DOMAIN loaded.instance_concepts

\* the schema of a request that loaded: it resolves to an existing path and
\* the engine returns its model
SchemaLoaded(url) ==
    /\ path_exists(resolve_dict_url(url, mapper_of(url, loaded.mapped)))
    /\ loaded.schema_loads[url] = "model"

\* C19: the preload is not given up because a schema fails: unless it fails outright, outside the loop over the schemas, it returns with one provenance entry per requested URL in request order, the entry says success exactly for the schemas that loaded, and the concepts returned are those of every schema that loaded.
C19_PreloadSurvivesFailures ==
    (loaded # NoLoad /\ loaded.dts_first_schemas # <<>> /\ ~loaded.preloaded.none) =>
        /\ Len(loaded.preloaded.provenance) = Len(loaded.dts_first_schemas)
        /\ \A i \in 1..Len(loaded.dts_first_schemas) :
               /\ loaded.preloaded.provenance[i].schema_url = loaded.dts_first_schemas[i]
               /\ (loaded.preloaded.provenance[i].status = "success")
                      <=> SchemaLoaded(loaded.dts_first_schemas[i])
        /\ DOMAIN loaded.preloaded.concepts
               = UNION {DOMAIN schema_concepts(url) :
                           url \in {u \in Range(loaded.dts_first_schemas) : SchemaLoaded(u)}}

\* a preload in which one URL did not resolve, the engine failed on the next
\* schema, and the last one loaded
C19_Witness ==
    /\ loaded # NoLoad
    /\ Len(loaded.preloaded.provenance) = 3
    /\ loaded.preloaded.provenance[1].status = "unresolved"
    /\ loaded.preloaded.provenance[2].status \in {"error", "failed"}
    /\ loaded.preloaded.provenance[3].status = "success"
    /\ loaded.preloaded.concepts # EmptyTable

\* C20: when the engine's validation call raises, and so does not run to completion, the status validate_instance returns is not "success".
C20_NoSuccessWhenValidationRaises ==
    validated.validation = "raises" => validated.status # "success"

(***************************************************************************)
(* Properties of the validation worker                                     *)
(***************************************************************************)
\* the request's load failed: load_instance raised or returned no model
LoadFailed == task.load \in {"raises", "none"} \/ (task.load = "model" /\ task.model = "none")

C28_PackagesVerifiedBeforeLoad ==
    (task.status # "none" /\ ~task.packages_loaded) =>
        (~task.engine_loaded /\ task.status = "error")

(***************************************************************************)
(* Properties of the model handles                                         *)
(***************************************************************************)
\* C30: when a request is over, the model handle its load_instance returned
\* has been closed
C30_ModelClosedWhenRequestEnds ==
    \A t \in Threads : pc[t] = "done" => model[t] # "open"

(***************************************************************************)
(* Properties of the normalizer and of the variant generator               *)
(***************************************************************************)
\* C24: normalizing the result of _normalize_url again, with the same
\* is_prefix, gives the same string
C24_NormalizeIdempotent ==
    urlcall.op = "normalize" =>
        normalize_url(urlcall.variants[1], urlcall.is_prefix) = urlcall.variants[1]

\* C25: the list of _generate_dual_variants starts with the normalized
\* input, holds no string twice, and is the list generated from its own
\* first element
C25_VariantsAnchoredAtNormalize ==
    urlcall.op = "variants" =>
        /\ urlcall.variants # <<>>
        /\ urlcall.variants[1] = normalize_url(urlcall.url, urlcall.is_prefix)
        /\ \A i, j \in DOMAIN urlcall.variants :
               urlcall.variants[i] = urlcall.variants[j] => i = j
        /\ generate_dual_variants(urlcall.variants[1], urlcall.is_prefix)
               = urlcall.variants

(***************************************************************************)
(* Properties of the catalog map builder                                   *)
(***************************************************************************)
\* the map _build_catalog_map leaves for a list of loaded packages
CompleteMap(paths) == build_catalog_map(paths, pkg_catalog)

\* C22: a resolution that runs while the packages are reloaded reads the
\* complete catalog map of before the reload or the complete map of after
\* it, never an emptied or partly filled one
C22_ResolveSeesCompleteMap ==
    [][(resolved' # resolved /\ resolved'.url # <<>>) =>
           catalog_map \in {CompleteMap(rebuild.previous),
                            CompleteMap(loaded_package_paths)}]_vars

\* the descriptor of the package cannot be processed: it does not parse, or
\* one of its entries cannot be resolved
Unprocessable(p) ==
    \/ ~pkg_catalog[p].parses
    \/ \E e \in Range(pkg_catalog[p].entries) : e.resolvedPrefix = Unresolvable

\* the keys an entry is registered under
EntryKeys(e) == Range(generate_dual_variants(e.uriStartString, TRUE))

\* the local prefixes the processable loaded packages declare for a key
DeclaredFor(k) ==
    {e.resolvedPrefix :
        e \in UNION {Range(pkg_catalog[p].entries) :
                        p \in {q \in Range(loaded_package_paths) : ~Unprocessable(q)}}
              \cap {e \in UNION {Range(pkg_catalog[p].entries) : p \in Packages} :
                        k \in EntryKeys(e)}}

\* C23: once the map is built, a package whose descriptor could not be
\* processed has no entry in it, and every entry of every other loaded
\* package is in it, under each of its keys
C23_FailedPackageContributesNothing ==
    ~rebuild.active =>
        /\ \A p \in Range(loaded_package_paths) :
               Unprocessable(p) =>
                   \A k \in DOMAIN catalog_map : catalog_map[k] # ResolvedPrefix(p)
        /\ \A p \in Range(loaded_package_paths) :
               ~Unprocessable(p) =>
                   \A e \in Range(pkg_catalog[p].entries) :
                       \A k \in EntryKeys(e) :
                           k \in DOMAIN catalog_map /\ catalog_map[k] \in DeclaredFor(k)

(***************************************************************************)
(* Properties of the order of preload, injection and load                  *)
(***************************************************************************)
\* the provenance entries of the schemas the preloader loaded
LoadedSchemas ==
    {loaded.preloaded.provenance[i].schema_url :
        i \in {j \in DOMAIN loaded.preloaded.provenance :
                  loaded.preloaded.provenance[j].status = "success"}}

\* C26: with a DTS-first schema list, no fact of the returned model whose
\* concept a successfully preloaded schema defines is among the model's
\* undefined facts
C26_PreloadedConceptsDefineFacts ==
    (loaded.returned = "model" /\ loaded.dts_first_schemas # <<>>) =>
        \A fact \in loaded.undefinedFacts :
            \A schema_url \in LoadedSchemas : fact \notin DOMAIN schema_concepts(schema_url)

\* C27: a schema URL is recorded as unresolved only if the resolver returns
\* nothing for it; a URL the resolver has a location for (the engine
\* mapper's target included) is handed to the engine
C27_UnresolvedOnlyWhenResolverHasNothing ==
    \A i \in DOMAIN loaded.preloaded.provenance :
        loaded.preloaded.provenance[i].status = "unresolved" =>
            resolve_dict_url(loaded.preloaded.provenance[i].schema_url,
                             mapper_of(loaded.preloaded.provenance[i].schema_url,
                                       loaded.mapped)) = None

\* C29: when a DTS-first schema list is given and the preload returns a
\* result, no injection and no rewrite come before the engine's load: the
\* engine is handed the file as it was uploaded
C29_PreloadExcludesInjection ==
    (loaded.dts_first_schemas # <<>> /\ ~loaded.preloaded.none) =>
        loaded.first_file_path = loaded.file_path

\* a list was given, the preload returned a result with no schema loaded,
\* the instance lacks the met schema, and the engine got the uploaded file
C29_Witness ==
    /\ loaded.dts_first_schemas # <<>>
    /\ ~loaded.preloaded.none
    /\ loaded.preloaded.schemas_loaded = 0
    /\ met_schema_missing(files[loaded.file_path])
    /\ Flag("allow_instance_rewrite")
    /\ loaded.first_file_path = loaded.file_path
    /\ loaded.returned = "model"

=============================================================================
